---- MODULE Spec2Model ----
\* Physical page allocator of sv6 (kalloc.cc): buddy allocators behind
\* spinlocks, per-CPU hot-page caches and steal orders, called by preemptible
\* kernel threads that the scheduler may move between CPUs.
EXTENDS Integers, Sequences, FiniteSets, TLC

\* ------------------------------------------------------------------ bounds

\* Half of the hot-page cache and the pages in the live areas of buddy 0 and
\* buddy 1, for the machine the threads of Spec run on.
HotHalf == 1
Buddy0Pages == 2
Buddy1Pages == 1
\* The same for the machine of the one-thread specification SpecSeq.
SeqHotHalf == 2
SeqBuddy0Pages == 3
SeqBuddy1Pages == 2
\* Largest block order of the (scaled down) buddy allocator.
MAX_ORDER == 1
\* PGSIZE: the bytes of a (scaled down) page.
PGSIZE == 2
\* The most buddies a (scaled down) machine has.
MaxBuddies == 4
CountBuddies == 3
MaxBootPages == 2
CountPages == 2

\* gcbench: the children forked at most, the turns of the for loop of
\* child() (10 in the source) and the turns of its do loop at most.
MaxProc == 2
BatchOps == 2
MaxBatches == 2
\* The capacity of steal_order::segment_vector.
MAX_SEGMENTS == 5
\* The most entries of a firmware memory map, and the most NUMA nodes.
MaxEntries == 3
MaxNodes == 2
\* The end of the low memory initkalloc discards (0x100000, scaled down).
LowMem == 1
\* The largest address (~0 of the scaled down uintptr_t).
AddrMax == 5
MemTop == AddrMax + 1

CPUs == {0, 1}
Threads == {1, 2}
Buddies == {0, 1}
NoThread == 0
Null == -1

\* A pointer that lies in no buddy window.
WildPtr == Buddy0Pages + Buddy1Pages + SeqBuddy0Pages + SeqBuddy1Pages
Orders == 0 .. MAX_ORDER
\* Request sizes, as orders: PGSIZE is order 0; MAX_ORDER + 1 is larger than
\* buddy_allocator::MAX_SIZE.
ReqOrders == 0 .. (MAX_ORDER + 1)

RECURSIVE Pow2(_)
Pow2(k) == IF k = 0 THEN 1 ELSE 2 * Pow2(k - 1)

Min(a, b) == IF a < b THEN a ELSE b

\* ------------------------------------------------------- buddy allocator
\* A buddy's state is the set of its free blocks <<base, order>>; win is its
\* reservation window <<lo, hi>>.

BlockPages(blk) == blk[1] .. (blk[1] + Pow2(blk[2]) - 1)

contains(win, ptr) == win[1] <= ptr /\ ptr < win[2]

Sibling(base, k) == IF (base \div Pow2(k)) % 2 = 0 THEN base + Pow2(k) ELSE base - Pow2(k)

\* buddy_allocator::free: coalesce with the free sibling while there is one.
RECURSIVE buddy_free(_, _, _, _)
buddy_free(S, win, base, k) ==
  LET sib == Sibling(base, k) IN
  IF /\ k < MAX_ORDER
     /\ <<sib, k>> \in S
     /\ win[1] <= Min(base, sib)
     /\ Min(base, sib) + Pow2(k + 1) <= win[2]
  THEN buddy_free(S \ {<<sib, k>>}, win, Min(base, sib), k + 1)
  ELSE S \cup {<<base, k>>}

\* The order of the smallest free block that can serve order k, or Null.
RECURSIVE FitOrder(_, _)
FitOrder(S, k) ==
  IF k > MAX_ORDER THEN Null
  ELSE IF \E blk \in S : blk[2] = k THEN k
  ELSE FitOrder(S, k + 1)

\* Splitting block <<base, j>> down to order k keeps the lower part and
\* returns the upper halves to the free lists.
RECURSIVE SplitRest(_, _, _)
SplitRest(base, j, k) ==
  IF j = k THEN {}
  ELSE {<<base + Pow2(j - 1), j - 1>>} \cup SplitRest(base, j - 1, k)

\* buddy_allocator::alloc_nothrow: the possible outcomes <<ptr, free'>>; the
\* empty set when the buddy has no block (the call returns nullptr).  Which
\* block of the chosen free list is popped depends on the list's order.
alloc_nothrow(S, k) ==
  LET j == FitOrder(S, k) IN
  IF j = Null THEN {}
  ELSE { <<blk[1], (S \ {blk}) \cup SplitRest(blk[1], j, k)>> :
           blk \in {b \in S : b[2] = j} }

\* buddy_allocator::MAX_SIZE, in bytes.
MAX_SIZE == Pow2(MAX_ORDER) * PGSIZE

\* The order a size in bytes is rounded up to (sizes above MAX_SIZE give
\* MAX_ORDER + 1, which no buddy serves).  A size of 0 is undefined.
size_order(size) ==
  CHOOSE k \in 0 .. (MAX_ORDER + 1) :
    /\ k <= MAX_ORDER => Pow2(k) * PGSIZE >= size
    /\ \A j \in 0 .. (k - 1) : Pow2(j) * PGSIZE < size

\* buddy_allocator::get_stats: free pages in total.
RECURSIVE get_stats(_)
get_stats(S) ==
  IF S = {} THEN 0
  ELSE LET b == CHOOSE x \in S : TRUE
       IN Pow2(b[2]) + get_stats(S \ {b})

\* The constructor populates the free lists with the live area [lo, hi).
RECURSIVE buddy_init(_, _, _)
buddy_init(win, lo, hi) ==
  IF lo >= hi THEN {}
  ELSE buddy_free(buddy_init(win, lo, hi - 1), win, hi - 1, 0)

\* ------------------------------------------------------------ steal order
\* segments_ is a sequence of <<low, high>>.

\* A finish that merges with the last range even when it is the local one.
add_finish_any(segs, low, high) ==
  IF low >= high THEN segs
  ELSE IF Len(segs) > 0 /\ segs[Len(segs)][2] = low
       THEN [segs EXCEPT ![Len(segs)] = <<@[1], high>>]
  ELSE IF Len(segs) > 0 /\ high = segs[Len(segs)][1]
       THEN [segs EXCEPT ![Len(segs)] = <<low, @[2]>>]
  ELSE Append(segs, <<low, high>>)

add_finish(segs, low, high) ==
  IF low >= high THEN segs
  ELSE IF Len(segs) > 1 /\ segs[Len(segs)][2] = low
       THEN [segs EXCEPT ![Len(segs)] = <<@[1], high>>]
  ELSE IF Len(segs) > 1 /\ high = segs[Len(segs)][1]
       THEN [segs EXCEPT ![Len(segs)] = <<low, @[2]>>]
  ELSE Append(segs, <<low, high>>)

\* The loop of steal_order::add over the segments present when it starts
\* (idx .. n); the recursive call adds the upper part first.
RECURSIVE add_loop(_, _, _, _, _)
add_loop(segs, low, high, idx, n) ==
  IF idx > n THEN add_finish(segs, low, high)
  ELSE LET seg == segs[idx] IN
    IF low = seg[1] /\ high = seg[2] THEN segs
    ELSE IF low < seg[1] /\ high > seg[2]
         THEN LET upper == add_loop(segs, seg[2], high, 1, Len(segs))
              IN add_loop(upper, low, upper[idx][1], idx + 1, n)
    ELSE IF low < seg[1] /\ high > seg[1]
         THEN add_loop(segs, low, seg[1], idx + 1, n)
    ELSE IF low < seg[2] /\ high > seg[2]
         THEN add_loop(segs, seg[2], high, idx + 1, n)
    ELSE add_loop(segs, low, high, idx + 1, n)

add(segs, low, high) == add_loop(segs, low, high, 1, Len(segs))

\* steal_order::iterator: every index of every segment, segment by segment.
RECURSIVE Iterate(_)
Iterate(segs) ==
  IF segs = <<>> THEN <<>>
  ELSE [n \in 1 .. (segs[1][2] - segs[1][1]) |-> segs[1][1] + n - 1]
       \o Iterate(Tail(segs))

is_local(segs, index) == segs[1][1] <= index /\ index < segs[1][2]

\* initkalloc: the steal order of a CPU with local buddies [cpu_low,
\* cpu_high) in a node with buddies [node_low, node_low + node_buddies).
InitSteal(cpu_low, cpu_high, node_low, node_buddies, nbuddies) ==
  add(add(add(<<>>, cpu_low, cpu_high), node_low, node_low + node_buddies),
      0, nbuddies)

\* --------------------------------------------------------------- phys_map
\* A phys_map is its region vector: a sequence of <<base, end>>.

Max(a, b) == IF a > b THEN a ELSE b

\* regions.erase(it)
Erase(R, i) == SubSeq(R, 1, i - 1) \o SubSeq(R, i + 1, Len(R))

\* regions.insert(it, reg): reg becomes element i.
InsertAt(R, i, reg) == SubSeq(R, 1, i - 1) \o <<reg>> \o SubSeq(R, i, Len(R))

\* A scan that looks at the order of the bases only.
AddScan_sorted(R, base, end) ==
  LET hit == {i \in 1 .. Len(R) : R[i][1] >= base}
  IN IF hit = {} THEN Len(R) + 1
     ELSE CHOOSE i \in hit : \A j \in hit : i <= j

\* The scan of phys_map::add: the first region that overlaps or touches
\* [base, end), or whose base is not below base; Len(R) + 1 if there is none.
AddScan(R, base, end) ==
  LET hit == {i \in 1 .. Len(R) :
                \/ end >= R[i][1] /\ base <= R[i][2]
                \/ R[i][1] >= base}
  IN IF hit = {} THEN Len(R) + 1
     ELSE CHOOSE i \in hit : \A j \in hit : i <= j

\* phys_map::add
RECURSIVE phys_add(_, _, _)
phys_add(R, base, end) ==
  LET i == AddScan(R, base, end) IN
  IF i <= Len(R) /\ end >= R[i][1] /\ base <= R[i][2]
  THEN \* found overlapping region: re-add the expanded region
       phys_add(Erase(R, i), Min(base, R[i][1]), Max(end, R[i][2]))
  ELSE InsertAt(R, i, <<base, end>>)

\* The loop of phys_map::remove(base, end), from region i on.
RECURSIVE remove_loop(_, _, _, _)
remove_loop(R, base, end, i) ==
  IF i > Len(R) THEN R
  ELSE IF R[i][1] < base /\ end < R[i][2]
       THEN \* split this region
            remove_loop([InsertAt(R, i + 1, <<end, R[i][2]>>) EXCEPT ![i] = <<@[1], base>>],
                        base, end, i + 1)
  ELSE IF base <= R[i][1] /\ R[i][2] <= end
       THEN \* completely remove region: it = regions.erase(it) - 1
            remove_loop(Erase(R, i), base, end, i)
  ELSE IF base <= R[i][1] /\ end > R[i][1]
       THEN \* left truncate
            remove_loop([R EXCEPT ![i] = <<end, @[2]>>], base, end, i + 1)
  ELSE IF base < R[i][2] /\ end >= R[i][2]
       THEN \* right truncate
            remove_loop([R EXCEPT ![i] = <<@[1], base>>], base, end, i + 1)
  ELSE remove_loop(R, base, end, i + 1)

\* A remove that leaves the first region alone.
phys_remove_rest(R, base, end) == remove_loop(R, base, end, 2)

\* phys_map::remove(base, end)
phys_remove(R, base, end) == remove_loop(R, base, end, 1)

\* A remove of another map that removes nothing.
phys_remove_map_none(R, O) == R

\* phys_map::remove(const phys_map &o)
RECURSIVE phys_remove_map(_, _)
phys_remove_map(R, O) ==
  IF O = <<>> THEN R
  ELSE phys_remove_map(phys_remove(R, O[1][1], O[1][2]), Tail(O))

\* The loop of phys_map::intersect over o.regions[j .. n]; self says that o
\* is the map itself, whose regions are then read as they are at that time.
RECURSIVE intersect_loop(_, _, _, _, _, _)
intersect_loop(R, O, j, n, prevend, self) ==
  IF j > n THEN phys_remove(R, prevend, MemTop)
  ELSE LET reg == IF self THEN R[j] ELSE O[j]
       IN intersect_loop(phys_remove(R, prevend, reg[1]), O, j + 1, n, reg[2], self)

\* An intersect that looks at the first region of o only.
phys_intersect_first(R, O, self) ==
  IF O = <<>> THEN <<>>
  ELSE intersect_loop(R, O, 1, 1, 0, self)

\* phys_map::intersect
phys_intersect(R, O, self) ==
  IF O = <<>> THEN <<>>
  ELSE intersect_loop(R, O, 1, Len(O), 0, self)

\* The loop of phys_map::alloc from region i on, with addresses physical;
\* Null stands for either panic after the loop.
RECURSIVE alloc_loop(_, _, _, _, _)
alloc_loop(R, pa, size, align, i) ==
  IF i > Len(R) THEN Null
  ELSE LET pa1 == IF pa = 0 THEN R[i][1] ELSE pa IN
       IF R[i][1] <= pa1 /\ pa1 <= R[i][2]
       THEN LET pa2 == IF align # 0 THEN ((pa1 + align - 1) \div align) * align ELSE pa1
            IN IF pa2 + size < R[i][2] THEN pa2
               ELSE alloc_loop(R, 0, size, align, i + 1)
       ELSE alloc_loop(R, pa1, size, align, i + 1)

\* phys_map::alloc
phys_alloc(R, start, size, align) == alloc_loop(R, start, size, align, 1)

\* The bytes of a map.
Bytes(R) == UNION {R[i][1] .. (R[i][2] - 1) : i \in 1 .. Len(R)}

\* phys_map::bytes
RECURSIVE phys_bytes(_)
phys_bytes(R) == IF R = <<>> THEN 0 ELSE (R[1][2] - R[1][1]) + phys_bytes(Tail(R))

\* ------------------------------------------------------------------ state

VARIABLES
  hot_max,    \* KALLOC_HOT_PAGES of the build
  win,        \* buddy -> <<lo, hi>>: the window of buddies[b].alloc
  free,       \* buddy -> the free blocks of buddies[b].alloc
  lock,       \* buddy -> the thread holding buddies[b].lock, or NoThread
  steal,      \* CPU -> cpu_mem[c].steal, its segments
  hot_pages,  \* CPU -> cpu_mem[c].hot_pages
  nhot,       \* CPU -> cpu_mem[c].nhot
  held,       \* the blocks <<base, order>> callers hold
  cpu,        \* thread -> the CPU it is on (mycpu())
  cli,        \* thread -> it runs with interrupts disabled (scoped_cli)
  th,         \* thread -> its position in kalloc/kfree and their locals
  crashed,    \* "no", "panic" or "corrupt"
  lifo,       \* CPU -> <<p, n>> when the last access to its cache was the push
              \* of kfree(p) on that CPU, entered with nhot = n; else NoPush
  mem_map,    \* the regions of the phys_map mem
  node_mem,   \* the regions of a second phys_map (node_mem of initkalloc)
  boot,       \* the position of initkalloc and what it has built
  last,       \* the last phys_map or steal_order operation, its arguments,
              \* the maps before it and what it returned
  bench       \* gcbench: the parent, its children and the records written
              \* to /dev/gc

\* The variables of boot time; kalloc and kfree never touch them.
boot_vars == <<mem_map, node_mem, boot, last, bench>>

\* The variables of the allocator at run time.
run_vars == <<hot_max, win, free, lock, hot_pages, nhot, held, cpu, cli, th,
              crashed, lifo, bench>>

vars == <<hot_max, win, free, lock, steal, hot_pages, nhot, held, cpu, cli, th,
          crashed, lifo, mem_map, node_mem, boot, last, bench>>

KALLOC_HOT_PAGES == hot_max

\* gcbench is not running.
NoBench == [main |-> "none"]

\* The value of lifo and expect when there is no such push.
NoPush == <<Null, Null>>

\* The value of last when no boot-time operation is recorded.
NoOp == [op |-> "none"]

\* Locals of a call.  nhot0, snap, sent, asked and expect record what the
\* call saw and did: nhot on entry, the cache when its flush began, the pages
\* the flush handed to buddies, the buddies that had no block, and lifo at
\* the pop.
Idle == [pc |-> "idle", size |-> 0, v |-> Null, mem |-> Null, buddyit |-> 0,
         lb |-> Null, old |-> Null, i |-> 0, res |-> Null,
         avail |-> 0, target |-> Null,
         nhot0 |-> Null, snap |-> <<>>, sent |-> <<>>, asked |-> {},
         expect |-> NoPush, steals |-> 0]

\* The memory layouts initkalloc produces for two CPUs with one buddy each:
\* one NUMA node with one region (KALLOC_BUDDY_PER_CPU: both buddies get the
\* region as their window), or two nodes with one region each.
Layouts == {"one_node", "two_nodes"}

BootWin(layout, p0, p1, b) ==
  IF layout = "one_node" THEN <<0, p0 + p1>>
  ELSE IF b = 0 THEN <<0, p0>> ELSE <<p0, p0 + p1>>

BootSteal(layout, c) ==
  IF layout = "one_node" THEN InitSteal(c, c + 1, 0, 2, 2)
  ELSE InitSteal(c, c + 1, c, 1, 2)

\* The state initkalloc leaves: hh is half the hot cache, p0 and p1 the pages
\* in the live areas of buddy 0 and buddy 1.
Boot(hh, p0, p1) ==
  /\ hot_max = 2 * hh
  /\ \E layout \in Layouts :
       /\ win = [b \in Buddies |-> BootWin(layout, p0, p1, b)]
       /\ steal = [c \in CPUs |-> BootSteal(layout, c)]
  /\ free = [b \in Buddies |-> IF b = 0 THEN buddy_init(win[b], 0, p0)
                                   ELSE buddy_init(win[b], p0, p0 + p1)]
  /\ lock = [b \in Buddies |-> NoThread]
  /\ hot_pages = [c \in CPUs |-> [s \in 0 .. (2 * hh - 1) |-> Null]]
  /\ nhot = [c \in CPUs |-> 0]
  /\ held = {}
  /\ cli = [t \in Threads |-> FALSE]
  /\ th = [t \in Threads |-> Idle]
  /\ crashed = "no"
  /\ lifo = [c \in CPUs |-> NoPush]
  /\ mem_map = <<>>
  /\ node_mem = <<>>
  /\ boot = [pc |-> "kinited"]
  /\ last = NoOp
  /\ bench = NoBench

Init == Boot(HotHalf, Buddy0Pages, Buddy1Pages) /\ cpu \in [Threads -> CPUs]

Pages == UNION {win[b][1] .. (win[b][2] - 1) : b \in DOMAIN win}

\* ------------------------------------------------------------- scheduling

\* The pcs of a hot-list flush, and of kfree as a whole.
FlushPcs == {"kf_sort", "kf_flush", "kf_flush_lock", "kf_flush_free", "kf_shift"}

KfreePcs == FlushPcs \cup {"kf_hot", "kf_push", "kf_gen_lock", "kf_gen_free", "kf_panic"}

Holds(t) == {b \in DOMAIN lock : lock[b] = t}

\* A thread that disabled interrupts or holds a spinlock keeps its CPU.
NoPreempt(t) == cli[t] \/ Holds(t) # {}

\* The cache slots that hold a page: below nhot, and not yet handed to a
\* buddy by a flush of that cache.
LiveSlots(c) ==
  {s \in DOMAIN hot_pages[c] :
     /\ s < nhot[c]
     /\ \A t \in Threads : th[t].mem = c /\ th[t].pc \in FlushPcs => s >= th[t].i}

\* The block a call carries: the argument of a kfree that has not stored it
\* yet, the result of a kalloc that has not returned it yet.
InFlight(t) ==
  IF th[t].pc \in KfreePcs THEN {<<th[t].v, th[t].size>>}
  ELSE IF th[t].pc = "ka_ret" /\ th[t].res # Null THEN {<<th[t].res, th[t].size>>}
  ELSE {}

\* Everything that owns page p: free blocks of buddies, live cache slots,
\* blocks callers hold, blocks calls carry.
Owners(p) ==
  UNION {{<<"buddy", b, blk>> : blk \in {x \in free[b] : p \in BlockPages(x)}} :
           b \in DOMAIN free}
  \cup UNION {{<<"hot", c, s>> : s \in {x \in LiveSlots(c) : hot_pages[c][x] = p}} :
                 c \in CPUs}
  \cup {<<"held", blk>> : blk \in {x \in held : p \in BlockPages(x)}}
  \cup {<<"call", t>> : t \in {u \in Threads :
                                   \E blk \in InFlight(u) : p \in BlockPages(blk)}}

\* A page with two owners: memory is corrupted from here on.
TwoOwners == \E p \in Pages : Cardinality(Owners(p)) > 1

\* Thread t can take a step: nothing went fatally wrong and no other thread
\* occupies t's CPU with interrupts disabled.  What the kernel does once a
\* page has two owners is not followed.
Runnable(t) ==
  /\ crashed = "no"
  /\ \A u \in Threads \ {t} : cpu[u] = cpu[t] => ~NoPreempt(u)
  /\ ~TwoOwners

At(t, p) == th[t].pc = p /\ Runnable(t)

\* The steal order mem->steal as the sequence of buddy indexes it yields.
Order(c) == Iterate(steal[c])

\* A preempted thread resumes on another CPU.  Only the places where the
\* thread's CPU is read next, or was read with interrupts enabled, are kept.
Reschedule(t, places) ==
  /\ crashed = "no"
  /\ ~NoPreempt(t)
  /\ th[t].pc \in places
  /\ ~TwoOwners
  /\ \E c \in CPUs \ {cpu[t]} : cpu' = [cpu EXCEPT ![t] = c]
  /\ UNCHANGED <<boot_vars, hot_max, win, free, lock, steal, hot_pages, nhot, held, cli, th,
                 crashed, lifo>>

Migrate(t) == Reschedule(t, {"idle", "kf_hot"})

\* Entries at or above nhot are dead unless a flush of that cache is under
\* way (only a flush reads them): they are reset, so that states differing
\* in dead entries only coincide.
Canon(h, n, T) ==
  [c \in CPUs |->
     IF \E t \in Threads : T[t].mem = c /\ T[t].pc \in FlushPcs
     THEN h[c]
     ELSE [s \in DOMAIN h[c] |-> IF s >= n[c] THEN Null ELSE h[c][s]]]

\* ----------------------------------------------------------------- kalloc

\* kalloc entry.  A page-sized request disables interrupts, reads
\* mycpu()->mem and tests mem->nhot == 0; every other size walks
\* mycpu()->mem->steal on the general path.
kalloc_call(t) ==
  /\ At(t, "idle")
  /\ \E k \in ReqOrders :
       IF k = 0
       THEN /\ cli' = [cli EXCEPT ![t] = TRUE]
            /\ th' = [th EXCEPT ![t] =
                 IF nhot[cpu[t]] = 0
                 THEN [Idle EXCEPT !.pc = "ka_refill_lock", !.mem = cpu[t],
                                   !.buddyit = 1, !.lb = Order(cpu[t])[1]]
                 ELSE [Idle EXCEPT !.pc = "ka_pop", !.mem = cpu[t]]]
       ELSE /\ cli' = cli
            /\ th' = [th EXCEPT ![t] =
                 [Idle EXCEPT !.pc = "ka_gen_lock", !.size = k, !.mem = cpu[t],
                              !.buddyit = 1]]
  /\ UNCHANGED <<boot_vars, hot_max, win, free, lock, steal, hot_pages, nhot, held, cpu,
                 crashed, lifo>>

\* auto l = lb->lock.guard();
kalloc_refill_lock(t) ==
  /\ At(t, "ka_refill_lock")
  /\ lock[th[t].lb] = NoThread
  /\ lock' = [lock EXCEPT ![th[t].lb] = t]
  /\ th' = [th EXCEPT ![t].pc = "ka_refill"]
  /\ UNCHANGED <<boot_vars, hot_max, win, free, steal, hot_pages, nhot, held, cpu, cli,
                 crashed, lifo>>

\* One pass of the refill loop.
kalloc_refill(t) ==
  /\ At(t, "ka_refill")
  /\ LET r == th[t]
         mem == r.mem
         order == Order(mem)
         outs == alloc_nothrow(free[r.lb], 0)
         nit == r.buddyit + 1
     IN
     IF nhot[mem] < KALLOC_HOT_PAGES \div 2 /\ r.buddyit <= Len(order)
     THEN IF outs # {}
          THEN \* mem->hot_pages[mem->nhot++] = page
               /\ \E o \in outs :
                    /\ free' = [free EXCEPT ![r.lb] = o[2]]
                    /\ hot_pages' = [hot_pages EXCEPT ![mem][nhot[mem]] = o[1]]
               /\ nhot' = [nhot EXCEPT ![mem] = @ + 1]
               /\ lifo' = [lifo EXCEPT ![mem] = NoPush]
               /\ UNCHANGED <<lock, cli, th>>
          ELSE IF nit > Len(order) /\ nhot[mem] = 0
          THEN \* goto general: l and cli leave their scope, and the walk
               \* over mycpu()->mem->steal starts
               /\ lock' = [lock EXCEPT ![r.lb] = NoThread]
               /\ cli' = [cli EXCEPT ![t] = FALSE]
               /\ th' = [th EXCEPT ![t].pc = "ka_gen_lock", ![t].buddyit = 1,
                                   ![t].lb = Null, ![t].mem = cpu[t]]
               /\ UNCHANGED <<free, hot_pages, nhot, lifo>>
          ELSE \* lb = &buddies[*buddyit]; the end iterator yields index 0
               /\ th' = [th EXCEPT ![t].pc = "ka_refill_next", ![t].buddyit = nit,
                                   ![t].old = r.lb,
                                   ![t].lb = IF nit > Len(order) THEN 0 ELSE order[nit]]
               /\ UNCHANGED <<free, lock, hot_pages, nhot, cli, lifo>>
     ELSE \* the loop ends and l leaves its scope
          /\ lock' = [lock EXCEPT ![r.lb] = NoThread]
          /\ th' = [th EXCEPT ![t].pc = "ka_pop", ![t].lb = Null, ![t].buddyit = 0]
          /\ UNCHANGED <<free, hot_pages, nhot, cli, lifo>>
  /\ UNCHANGED <<boot_vars, hot_max, win, steal, held, cpu, crashed>>

\* l = lb->lock.guard(): the right-hand side takes the next buddy's lock
\* while l still holds the previous one.
kalloc_refill_next(t) ==
  /\ At(t, "ka_refill_next")
  /\ lock[th[t].lb] = NoThread
  /\ lock' = [lock EXCEPT ![th[t].lb] = t]
  /\ th' = [th EXCEPT ![t].pc = "ka_refill_handoff"]
  /\ UNCHANGED <<boot_vars, hot_max, win, free, steal, hot_pages, nhot, held, cpu, cli,
                 crashed, lifo>>

\* The move assignment to l then releases the previous buddy's lock;
\* if (!mem->steal.is_local(*buddyit)) kstats::inc(kalloc_hot_list_steal_count).
\* steals counts the increments this call has made.
kalloc_refill_handoff(t) ==
  /\ At(t, "ka_refill_handoff")
  /\ lock' = [lock EXCEPT ![th[t].old] = NoThread]
  /\ th' = [th EXCEPT ![t].pc = "ka_refill", ![t].old = Null,
                      ![t].steals = IF is_local(steal[th[t].mem], th[t].lb)
                                    THEN @ ELSE @ + 1]
  /\ UNCHANGED <<boot_vars, hot_max, win, free, steal, hot_pages, nhot, held, cpu, cli,
                 crashed, lifo>>

\* The thread's locals after res = mem->hot_pages[--mem->nhot].
PopLocals(t) ==
  [th EXCEPT ![t].pc = "ka_ret",
             ![t].res = hot_pages[th[t].mem][nhot[th[t].mem] - 1],
             ![t].expect = lifo[th[t].mem]]

\* res = mem->hot_pages[--mem->nhot]; cli leaves its scope.
kalloc_pop(t) ==
  /\ At(t, "ka_pop")
  /\ LET mem == th[t].mem IN
       IF nhot[mem] = 0
       THEN \* --nhot wraps around: the read is outside hot_pages
            /\ crashed' = "corrupt"
            /\ UNCHANGED <<hot_pages, nhot, cli, th, lifo>>
       ELSE /\ nhot' = [nhot EXCEPT ![mem] = @ - 1]
            /\ cli' = [cli EXCEPT ![t] = FALSE]
            /\ th' = PopLocals(t)
            /\ hot_pages' = Canon(hot_pages, nhot', th')
            /\ lifo' = [lifo EXCEPT ![mem] = NoPush]
            /\ UNCHANGED crashed
  /\ UNCHANGED <<boot_vars, hot_max, win, free, lock, steal, held, cpu>>

\* A walk that gives up after the first buddy of the steal order.
WalkDone_first(order, it) == it > 1

\* The range-for over the steal order has passed its last index.
WalkDone(order, it) == it > Len(order)

\* for (auto idx : steal): auto l = lb.lock.guard(), or the end of the walk.
kalloc_gen_lock(t) ==
  /\ At(t, "ka_gen_lock")
  /\ LET r == th[t]
         order == Order(r.mem)
     IN
     IF WalkDone(order, r.buddyit)
     THEN /\ th' = [th EXCEPT ![t].pc = "ka_ret", ![t].res = Null]
          /\ UNCHANGED lock
     ELSE /\ lock[order[r.buddyit]] = NoThread
          /\ lock' = [lock EXCEPT ![order[r.buddyit]] = t]
          /\ th' = [th EXCEPT ![t].pc = "ka_gen_alloc", ![t].lb = order[r.buddyit]]
  /\ UNCHANGED <<boot_vars, hot_max, win, free, steal, hot_pages, nhot, held, cpu, cli,
                 crashed, lifo>>

\* res = lb.alloc.alloc_nothrow(size); l leaves its scope; if (res) break.
kalloc_gen_alloc(t) ==
  /\ At(t, "ka_gen_alloc")
  /\ LET r == th[t]
         outs == alloc_nothrow(free[r.lb], r.size)
     IN
     /\ lock' = [lock EXCEPT ![r.lb] = NoThread]
     /\ IF outs = {}
        THEN /\ th' = [th EXCEPT ![t].pc = "ka_gen_lock", ![t].buddyit = @ + 1,
                                 ![t].lb = Null, ![t].asked = @ \cup {r.lb}]
             /\ UNCHANGED free
        ELSE \E o \in outs :
               /\ free' = [free EXCEPT ![r.lb] = o[2]]
               /\ th' = [th EXCEPT ![t].pc = "ka_ret", ![t].res = o[1],
                                   ![t].lb = Null]
  /\ UNCHANGED <<boot_vars, hot_max, win, steal, hot_pages, nhot, held, cpu, cli, crashed,
                 lifo>>

\* return res: the caller now holds the block (or got nullptr).
kalloc_ret(t) ==
  /\ At(t, "ka_ret")
  /\ held' = IF th[t].res = Null THEN held
             ELSE held \cup {<<th[t].res, th[t].size>>}
  /\ th' = [th EXCEPT ![t] = Idle]
  /\ UNCHANGED <<boot_vars, hot_max, win, free, lock, steal, hot_pages, nhot, cpu, cli,
                 crashed, lifo>>

\* ------------------------------------------------------------------ kfree

\* std::sort of a sequence of pointers.
RECURSIVE std_sort(_)
std_sort(q) ==
  IF q = <<>> THEN <<>>
  ELSE LET m == CHOOSE x \in 1 .. Len(q) : \A y \in 1 .. Len(q) : q[x] <= q[y]
       IN <<q[m]>> \o std_sort(SubSeq(q, 1, m - 1) \o SubSeq(q, m + 1, Len(q)))

\* The first n entries of a cache, as a sequence.
Prefix(h, n) == [k \in 1 .. n |-> h[k - 1]]

\* A flush that does not sort.
SortLow_none(h) == h

\* std::sort(mem->hot_pages, mem->hot_pages + KALLOC_HOT_PAGES / 2)
SortLow(h) ==
  LET low == std_sort(Prefix(h, KALLOC_HOT_PAGES \div 2))
  IN [s \in DOMAIN h |-> IF s < KALLOC_HOT_PAGES \div 2 THEN low[s + 1] ELSE h[s]]

\* memmove(mem->hot_pages, mem->hot_pages + KALLOC_HOT_PAGES / 2, n entries)
ShiftDown(h, n) ==
  [s \in DOMAIN h |-> IF s < n THEN h[s + KALLOC_HOT_PAGES \div 2] ELSE h[s]]

\* The first buddy in steal order whose window contains ptr, or Null.
\* A search that keeps going and ends on the last buddy that contains ptr.
FirstContaining_last(order, ptr) ==
  IF \E n \in 1 .. Len(order) : contains(win[order[n]], ptr)
  THEN order[CHOOSE n \in 1 .. Len(order) :
               /\ contains(win[order[n]], ptr)
               /\ \A m \in (n + 1) .. Len(order) : ~contains(win[order[m]], ptr)]
  ELSE Null

\* for (auto buddyidx : mem->steal) if (buddies[buddyidx].alloc.contains(ptr))
FirstContaining(order, ptr) ==
  IF \E n \in 1 .. Len(order) : contains(win[order[n]], ptr)
  THEN order[CHOOSE n \in 1 .. Len(order) :
               /\ contains(win[order[n]], ptr)
               /\ \A m \in 1 .. (n - 1) : ~contains(win[order[m]], ptr)]
  ELSE Null

\* kfree(v, size) up to its first lock or interrupt disable:
\* auto mem = mycpu()->mem is read with interrupts enabled; a size other
\* than PGSIZE looks for the first buddy in mem->steal that contains v.
kfree_entry(t, ptr, k) ==
  LET found == FirstContaining(Order(cpu[t]), ptr) IN
  IF k = 0
  THEN /\ th' = [th EXCEPT ![t] =
                   [Idle EXCEPT !.pc = "kf_hot", !.v = ptr, !.mem = cpu[t]]]
       /\ UNCHANGED crashed
  ELSE IF found = Null
  THEN \* panic("kfree: pointer %p is not in an allocated region")
       /\ th' = [th EXCEPT ![t] =
                   [Idle EXCEPT !.pc = "kf_panic", !.v = ptr, !.size = k,
                                !.mem = cpu[t]]]
       /\ crashed' = "panic"
  ELSE /\ th' = [th EXCEPT ![t] =
                   [Idle EXCEPT !.pc = "kf_gen_lock", !.v = ptr, !.size = k,
                                !.mem = cpu[t], !.lb = found]]
       /\ UNCHANGED crashed

\* A caller frees a block it holds, at the size it was allocated with.
kfree_call(t) ==
  /\ At(t, "idle")
  /\ \E blk \in held :
       /\ held' = held \ {blk}
       /\ kfree_entry(t, blk[1], blk[2])
  /\ UNCHANGED <<boot_vars, hot_max, win, free, lock, steal, hot_pages, nhot, cpu, cli, lifo>>

\* A caller frees a pointer that lies in no buddy window.
kfree_wild(t) ==
  /\ At(t, "idle")
  /\ \E k \in Orders : kfree_entry(t, WildPtr, k)
  /\ UNCHANGED <<boot_vars, hot_max, win, free, lock, steal, hot_pages, nhot, held, cpu, cli,
                 lifo>>

\* scoped_cli cli; if (mem->nhot == KALLOC_HOT_PAGES)
kfree_hot(t) ==
  /\ At(t, "kf_hot")
  /\ cli' = [cli EXCEPT ![t] = TRUE]
  /\ th' = [th EXCEPT ![t].pc = IF nhot[th[t].mem] = KALLOC_HOT_PAGES
                                THEN "kf_sort" ELSE "kf_push",
                      ![t].nhot0 = nhot[th[t].mem]]
  /\ UNCHANGED <<boot_vars, hot_max, win, free, lock, steal, hot_pages, nhot, held, cpu,
                 crashed, lifo>>

\* Sort the lower half; lb = nullptr; i = 0.
kfree_sort(t) ==
  /\ At(t, "kf_sort")
  /\ hot_pages' = [hot_pages EXCEPT ![th[t].mem] = SortLow(@)]
  /\ lifo' = [lifo EXCEPT ![th[t].mem] = NoPush]
  /\ th' = [th EXCEPT ![t].pc = "kf_flush", ![t].lb = Null, ![t].i = 0,
                      ![t].snap = Prefix(hot_pages[th[t].mem], KALLOC_HOT_PAGES)]
  /\ UNCHANGED <<boot_vars, hot_max, win, free, lock, steal, nhot, held, cpu, cli, crashed>>

\* One pass of the flush loop, up to the point where it takes a lock.
kfree_flush(t) ==
  /\ At(t, "kf_flush")
  /\ LET r == th[t]
         ptr == hot_pages[r.mem][r.i]
         found == FirstContaining(Order(r.mem), ptr)
     IN
     IF r.i < KALLOC_HOT_PAGES \div 2
     THEN IF r.lb = Null \/ ~contains(win[r.lb], ptr)
          THEN \* lock.release(); find the first buddy that contains ptr
               /\ lock' = IF r.lb = Null THEN lock
                          ELSE [lock EXCEPT ![r.lb] = NoThread]
               /\ IF found = Null
                  THEN \* assert(lb)
                       /\ crashed' = "panic"
                       /\ th' = [th EXCEPT ![t].lb = Null]
                  ELSE /\ th' = [th EXCEPT ![t].pc = "kf_flush_lock", ![t].lb = found]
                       /\ UNCHANGED crashed
               /\ UNCHANGED free
          ELSE \* the buddy of the previous pointer is reused
               /\ free' = [free EXCEPT ![r.lb] = buddy_free(@, win[r.lb], ptr, 0)]
               /\ th' = [th EXCEPT ![t].i = @ + 1, ![t].sent = Append(@, ptr)]
               /\ UNCHANGED <<lock, crashed>>
     ELSE \* lock.release() after the loop
          /\ lock' = IF r.lb = Null THEN lock ELSE [lock EXCEPT ![r.lb] = NoThread]
          /\ th' = [th EXCEPT ![t].pc = "kf_shift", ![t].lb = Null]
          /\ UNCHANGED <<free, crashed>>
  /\ UNCHANGED <<boot_vars, hot_max, win, steal, hot_pages, nhot, held, cpu, cli, lifo>>

\* The flush going on to free without the guard of the buddy it found.
kfree_flush_unguarded(t) ==
  /\ At(t, "kf_flush_lock")
  /\ th' = [th EXCEPT ![t].pc = "kf_flush_free"]
  /\ UNCHANGED <<boot_vars, hot_max, win, free, lock, steal, hot_pages, nhot, held, cpu,
                 cli, crashed, lifo>>

\* lock = lb->lock.guard(), after the previous lock was released.
kfree_flush_lock(t) ==
  /\ At(t, "kf_flush_lock")
  /\ lock[th[t].lb] = NoThread
  /\ lock' = [lock EXCEPT ![th[t].lb] = t]
  /\ th' = [th EXCEPT ![t].pc = "kf_flush_free"]
  /\ UNCHANGED <<boot_vars, hot_max, win, free, steal, hot_pages, nhot, held, cpu, cli,
                 crashed, lifo>>

\* lb->alloc.free(ptr, PGSIZE)
kfree_flush_free(t) ==
  /\ At(t, "kf_flush_free")
  /\ LET r == th[t]
         ptr == hot_pages[r.mem][r.i]
     IN /\ free' = [free EXCEPT ![r.lb] = buddy_free(@, win[r.lb], ptr, 0)]
        /\ th' = [th EXCEPT ![t].pc = "kf_flush", ![t].i = @ + 1,
                            ![t].sent = Append(@, ptr)]
  /\ UNCHANGED <<boot_vars, hot_max, win, lock, steal, hot_pages, nhot, held, cpu, cli,
                 crashed, lifo>>

\* Shift the hot page list down.
kfree_shift(t) ==
  /\ At(t, "kf_shift")
  /\ LET mem == th[t].mem
         n == KALLOC_HOT_PAGES - (KALLOC_HOT_PAGES \div 2)
     IN /\ nhot' = [nhot EXCEPT ![mem] = n]
        /\ th' = [th EXCEPT ![t].pc = "kf_push", ![t].i = 0]
        /\ hot_pages' = Canon([hot_pages EXCEPT ![mem] = ShiftDown(@, n)], nhot', th')
        /\ lifo' = [lifo EXCEPT ![mem] = NoPush]
  /\ UNCHANGED <<boot_vars, hot_max, win, free, lock, steal, held, cpu, cli, crashed>>

\* A push that always writes the first entry of the cache.
PushSlot_first(n) == 0

\* The entry that mem->hot_pages[mem->nhot++] = v writes.
PushSlot(n) == n

\* mem->hot_pages[mem->nhot++] = v; return.
kfree_push(t) ==
  /\ At(t, "kf_push")
  /\ LET mem == th[t].mem IN
       IF nhot[mem] >= KALLOC_HOT_PAGES
       THEN \* the store lands behind hot_pages, on nhot itself
            /\ crashed' = "corrupt"
            /\ nhot' = [nhot EXCEPT ![mem] = KALLOC_HOT_PAGES + 1]
            /\ UNCHANGED <<hot_pages, cli, th, lifo>>
       ELSE /\ hot_pages' = [hot_pages EXCEPT ![mem][PushSlot(nhot[mem])] = th[t].v]
            /\ nhot' = [nhot EXCEPT ![mem] = @ + 1]
            /\ cli' = [cli EXCEPT ![t] = FALSE]
            /\ th' = [th EXCEPT ![t] = Idle]
            /\ lifo' = [lifo EXCEPT ![mem] = IF cpu[t] = mem
                                             THEN <<th[t].v, th[t].nhot0>>
                                             ELSE NoPush]
            /\ UNCHANGED crashed
  /\ UNCHANGED <<boot_vars, hot_max, win, free, lock, steal, held, cpu>>

\* auto l = buddies[buddyidx].lock.guard();
kfree_gen_lock(t) ==
  /\ At(t, "kf_gen_lock")
  /\ lock[th[t].lb] = NoThread
  /\ lock' = [lock EXCEPT ![th[t].lb] = t]
  /\ th' = [th EXCEPT ![t].pc = "kf_gen_free"]
  /\ UNCHANGED <<boot_vars, hot_max, win, free, steal, hot_pages, nhot, held, cpu, cli,
                 crashed, lifo>>

\* buddies[buddyidx].alloc.free(v, size); return.
kfree_gen_free(t) ==
  /\ At(t, "kf_gen_free")
  /\ LET r == th[t] IN
       /\ free' = [free EXCEPT ![r.lb] = buddy_free(@, win[r.lb], r.v, r.size)]
       /\ lock' = [lock EXCEPT ![r.lb] = NoThread]
  /\ th' = [th EXCEPT ![t] = Idle]
  /\ UNCHANGED <<boot_vars, hot_max, win, steal, hot_pages, nhot, held, cpu, cli, crashed,
                 lifo>>

\* ---------------------------------------------------------- specification

Step(t) ==
  \/ kalloc_call(t)
  \/ kalloc_refill_lock(t)
  \/ kalloc_refill(t)
  \/ kalloc_refill_next(t)
  \/ kalloc_refill_handoff(t)
  \/ kalloc_pop(t)
  \/ kalloc_gen_lock(t)
  \/ kalloc_gen_alloc(t)
  \/ kalloc_ret(t)
  \/ kfree_call(t)
  \/ kfree_hot(t)
  \/ kfree_sort(t)
  \/ kfree_flush(t)
  \/ kfree_flush_lock(t)
  \/ kfree_flush_free(t)
  \/ kfree_shift(t)
  \/ kfree_push(t)
  \/ kfree_gen_lock(t)
  \/ kfree_gen_free(t)

\* Kernel threads on two CPUs, preempted and moved by the scheduler.
Next == \E t \in Threads : Step(t) \/ Migrate(t)

Spec == Init /\ [][Next]_vars

\* One thread, rescheduled between its calls only: every call runs on one
\* CPU from entry to return, with nothing else running.
InitSeq == Boot(SeqHotHalf, SeqBuddy0Pages, SeqBuddy1Pages) /\ cpu = [t \in Threads |-> 0]

NextSeq == Step(1) \/ Reschedule(1, {"idle"})

SpecSeq == InitSeq /\ [][NextSeq]_vars

\* One thread whose callers also free pointers that lie in no window.
InitWild == Boot(HotHalf, Buddy0Pages, Buddy1Pages) /\ cpu = [t \in Threads |-> 0]

NextWild == Step(1) \/ kfree_wild(1) \/ Reschedule(1, {"idle"})

SpecWild == InitWild /\ [][NextWild]_vars

\* The thread of CPU 0 that only allocates, on a machine of CountBuddies
\* buddies with windows of CountPages pages, of which any number may be free
\* at the start; each CPU has any local range in any node range.
InitCount ==
  /\ hot_max = 2 * SeqHotHalf
  /\ win = [b \in 0 .. (CountBuddies - 1) |-> <<b * CountPages, (b + 1) * CountPages>>]
  /\ \E p \in [0 .. (CountBuddies - 1) -> 0 .. CountPages] :
       free = [b \in 0 .. (CountBuddies - 1) |->
                 buddy_init(win[b], b * CountPages, b * CountPages + p[b])]
  /\ \E nl, cl, ch, nh \in [CPUs -> 0 .. CountBuddies] :
       /\ \A c \in CPUs : nl[c] <= cl[c] /\ cl[c] < ch[c] /\ ch[c] <= nh[c]
       /\ steal = [c \in CPUs |->
                     InitSteal(cl[c], ch[c], nl[c], nh[c] - nl[c], CountBuddies)]
  /\ lock = [b \in 0 .. (CountBuddies - 1) |-> NoThread]
  /\ hot_pages = [c \in CPUs |-> [s \in 0 .. (2 * SeqHotHalf - 1) |-> Null]]
  /\ nhot = [c \in CPUs |-> 0]
  /\ held = {}
  /\ cli = [t \in Threads |-> FALSE]
  /\ th = [t \in Threads |-> Idle]
  /\ crashed = "no"
  /\ lifo = [c \in CPUs |-> NoPush]
  /\ mem_map = <<>>
  /\ node_mem = <<>>
  /\ boot = [pc |-> "kinited"]
  /\ last = NoOp
  /\ bench = NoBench
  /\ cpu = [t \in Threads |-> t - 1]

NextCount ==
  \/ kalloc_call(1)
  \/ kalloc_refill_lock(1)
  \/ kalloc_refill(1)
  \/ kalloc_refill_next(1)
  \/ kalloc_refill_handoff(1)
  \/ kalloc_pop(1)
  \/ kalloc_gen_lock(1)
  \/ kalloc_gen_alloc(1)
  \/ kalloc_ret(1)

SpecCount == InitCount /\ [][NextCount]_vars

\* ------------------------------------------------------- phys_map at work
\* The allocator before initkalloc has built anything.
Unbooted ==
  /\ hot_max = 0
  /\ win = [b \in Buddies |-> <<0, 0>>]
  /\ free = [b \in Buddies |-> {}]
  /\ lock = [b \in Buddies |-> NoThread]
  /\ hot_pages = [c \in CPUs |-> <<>>]
  /\ nhot = [c \in CPUs |-> 0]
  /\ held = {}
  /\ cpu = [t \in Threads |-> 0]
  /\ cli = [t \in Threads |-> FALSE]
  /\ th = [t \in Threads |-> Idle]
  /\ crashed = "no"
  /\ lifo = [c \in CPUs |-> NoPush]
  /\ bench = NoBench

\* The non-empty ranges [base, end) of the address space.
Ranges == {r \in (0 .. AddrMax) \X (0 .. AddrMax) : r[1] < r[2]}

\* What last records of an operation on mem: its name and arguments, both
\* maps before it, what it returned and, for a remove(base, end) that comes
\* straight after add(base, end), the map before that add (else <<>>).
Did(name, args, ret) ==
  [op |-> name, args |-> args, before |-> mem_map, other |-> node_mem, ret |-> ret,
   undo |-> IF name = "remove" /\ last.op = "add" /\ last.args = args
            THEN <<last.before>> ELSE <<>>]

\* mem.add(base, end)
mem_add ==
  \E r \in Ranges :
    /\ mem_map' = phys_add(mem_map, r[1], r[2])
    /\ last' = Did("add", r, Null)
    /\ UNCHANGED <<node_mem, boot, steal, run_vars>>

\* mem.remove(base, end)
mem_remove ==
  \E r \in Ranges :
    /\ mem_map' = phys_remove(mem_map, r[1], r[2])
    /\ last' = Did("remove", r, Null)
    /\ UNCHANGED <<node_mem, boot, steal, run_vars>>

\* mem.remove(node_mem)
mem_remove_map ==
  /\ mem_map' = phys_remove_map(mem_map, node_mem)
  /\ last' = Did("remove_map", <<>>, Null)
  /\ UNCHANGED <<node_mem, boot, steal, run_vars>>

\* mem.intersect(node_mem)
mem_intersect ==
  /\ mem_map' = phys_intersect(mem_map, node_mem, FALSE)
  /\ last' = Did("intersect", <<>>, Null)
  /\ UNCHANGED <<node_mem, boot, steal, run_vars>>

\* mem.intersect(mem)
mem_intersect_self ==
  /\ mem_map' = phys_intersect(mem_map, mem_map, TRUE)
  /\ last' = Did("intersect_self", <<>>, Null)
  /\ UNCHANGED <<node_mem, boot, steal, run_vars>>

\* node_mem.add(base, end)
node_mem_add ==
  \E r \in Ranges :
    /\ node_mem' = phys_add(node_mem, r[1], r[2])
    /\ last' = Did("node_add", r, Null)
    /\ UNCHANGED <<mem_map, boot, steal, run_vars>>

\* node_mem.intersect(mem)
node_mem_intersect ==
  /\ node_mem' = phys_intersect(node_mem, mem_map, FALSE)
  /\ last' = Did("node_intersect", <<>>, Null)
  /\ UNCHANGED <<mem_map, boot, steal, run_vars>>

\* Sizes and alignments (powers of two, or 0 for none) asked of mem.alloc.
AllocSizes == 1 .. 2
AllocAligns == {0, 2}

\* mem.alloc(start, size, align)
mem_alloc ==
  \E start \in 0 .. AddrMax, size \in AllocSizes, align \in AllocAligns :
    /\ last' = Did("alloc", <<start, size, align>>, phys_alloc(mem_map, start, size, align))
    /\ UNCHANGED <<mem_map, node_mem, boot, steal, run_vars>>

InitMap ==
  /\ Unbooted
  /\ steal = [c \in CPUs |-> <<>>]
  /\ mem_map = <<>>
  /\ node_mem = <<>>
  /\ boot = [pc |-> "maps"]
  /\ last = NoOp

NextMap ==
  \/ mem_add
  \/ mem_remove
  \/ mem_remove_map
  \/ mem_intersect
  \/ mem_intersect_self
  \/ node_mem_add
  \/ node_mem_intersect
  \/ mem_alloc

SpecMap == InitMap /\ [][NextMap]_vars

\* ----------------------------------------------------- steal_order at work
\* The ranges [low, high) of buddy indexes up to n.
IndexRanges(n) == {r \in (0 .. n) \X (0 .. n) : r[1] < r[2]}

\* cpu_mem[0].steal.add(low, high), for any range that fits the vector.
steal_add ==
  \E r \in IndexRanges(MaxBuddies) :
    /\ Len(add(steal[0], r[1], r[2])) <= MAX_SEGMENTS
    /\ steal' = [steal EXCEPT ![0] = add(@, r[1], r[2])]
    /\ last' = [op |-> "steal_add", args |-> r, before |-> steal[0]]
    /\ UNCHANGED <<mem_map, node_mem, boot, run_vars>>

InitOrder ==
  /\ Unbooted
  /\ steal = [c \in CPUs |-> <<>>]
  /\ mem_map = <<>>
  /\ node_mem = <<>>
  /\ boot = [pc |-> "steal"]
  /\ last = NoOp

NextOrder == steal_add

SpecOrder == InitOrder /\ [][NextOrder]_vars

\* initkalloc, "Associate buddies with CPUs": boot.place[c] is <<cpu_low,
\* cpu_high, node_low, node_high>> of CPU c, boot.nbuddies is buddies.size()
\* and boot.done[c] counts the loops that have handled c.
assoc_cpu(c) ==
  /\ boot.pc = "assoc"
  /\ boot.done[c] = 0
  /\ steal' = [steal EXCEPT ![c] =
                 add(add(@, boot.place[c][1], boot.place[c][2]),
                     boot.place[c][3], boot.place[c][4])]
  /\ boot' = [boot EXCEPT !.done[c] = 1]
  /\ UNCHANGED <<mem_map, node_mem, last, run_vars>>

\* initkalloc, "Finally, allow CPUs to steal from any buddy".
assoc_any(c) ==
  /\ boot.pc = "assoc"
  /\ \A d \in CPUs : boot.done[d] >= 1
  /\ boot.done[c] = 1
  /\ steal' = [steal EXCEPT ![c] = add(@, 0, boot.nbuddies)]
  /\ boot' = [boot EXCEPT !.done[c] = 2]
  /\ UNCHANGED <<mem_map, node_mem, last, run_vars>>

\* Every placement: a node's buddies are a range of the buddy array, a
\* CPU's local buddies a range of its node's.
InitPlace ==
  /\ Unbooted
  /\ steal = [c \in CPUs |-> <<>>]
  /\ mem_map = <<>>
  /\ node_mem = <<>>
  /\ last = NoOp
  /\ \E n \in 1 .. MaxBuddies :
       \E pl \in [CPUs -> IndexRanges(n) \X IndexRanges(n)] :
         /\ \A c \in CPUs : pl[c][2][1] <= pl[c][1][1] /\ pl[c][1][2] <= pl[c][2][2]
         /\ boot = [pc |-> "assoc", nbuddies |-> n, done |-> [c \in CPUs |-> 0],
                    place |-> [c \in CPUs |-> <<pl[c][1][1], pl[c][1][2],
                                                pl[c][2][1], pl[c][2][2]>>]]

NextPlace == \E c \in CPUs : assoc_cpu(c) \/ assoc_any(c)

SpecPlace == InitPlace /\ [][NextPlace]_vars

\* ------------------------------------------------------------- initkalloc
\* A firmware memory map: entries <<base, length, type>>, type 1 usable.
FirmwareMaps ==
  UNION {[1 .. n -> {<<r[1], r[2] - r[1], type>> : r \in Ranges, type \in {1, 2}}] :
           n \in 0 .. MaxEntries}

\* One loop of parse_mb_map over the entries: the usable ones added, or
\* (usable = FALSE) the others removed.
RECURSIVE mb_loop(_, _, _)
mb_loop(R, mb, usable) ==
  IF mb = <<>> THEN R
  ELSE LET e == Head(mb) IN
       mb_loop(IF usable /\ e[3] = 1 THEN phys_add(R, e[1], e[1] + e[2])
               ELSE IF ~usable /\ e[3] # 1 THEN phys_remove(R, e[1], e[1] + e[2])
               ELSE R,
               Tail(mb), usable)

\* A parse that removes the reserved entries first.
parse_mb_map_reserved_first(R, mb) == mb_loop(mb_loop(R, mb, FALSE), mb, TRUE)

\* parse_mb_map, on a map that has the memory map flag.
parse_mb_map(R, mb) == mb_loop(mb_loop(R, mb, TRUE), mb, FALSE)

\* The live areas <<base, end>> of the buddies made of regions R, the first
\* from base on, none larger than size_limit.
RECURSIVE create_buddies(_, _, _)
create_buddies(R, base, size_limit) ==
  IF R = <<>> THEN <<>>
  ELSE IF base >= R[1][2]
       THEN create_buddies(Tail(R), IF Len(R) > 1 THEN R[2][1] ELSE 0, size_limit)
  ELSE LET subsize == Min(R[1][2] - base, size_limit)
       IN <<<<base, base + subsize>>>> \o create_buddies(R, base + subsize, size_limit)

\* initkalloc up to the scrubbed memory map: parse_mb_map and the removal of
\* the low memory.
init_parse_of(maps) ==
  /\ boot.pc = "start"
  /\ \/ \E mb \in maps :
          /\ mem_map' = phys_remove(parse_mb_map(mem_map, mb), 0, LowMem)
          /\ last' = Did("parse", mb, Null)
          /\ boot' = [boot EXCEPT !.pc = "parsed"]
     \/ \* multiboot header has no memory map
        /\ boot' = [boot EXCEPT !.pc = "panic"]
        /\ UNCHANGED <<mem_map, last>>
  /\ UNCHANGED <<node_mem, steal, run_vars>>

\* The same on any of the firmware maps of up to MaxEntries entries.
init_parse == init_parse_of(FirmwareMaps)

\* initkalloc, the page metadata array, for any newend and any size of the
\* array (both stand for the rounded addresses): the array takes bytes at
\* newend, or bytes + more from the map if it is not placed at newend; the
\* memory before newend leaves the map.
init_page_info ==
  /\ boot.pc = "parsed"
  /\ \E newend \in LowMem .. (LowMem + 1), bytes \in AllocSizes, more \in 0 .. 1 :
       LET first == phys_alloc(mem_map, newend, bytes, 0)
           again == phys_alloc(mem_map, newend, bytes + more, 0)
       IN IF first = Null \/ (first # newend /\ again = Null)
          THEN /\ boot' = [boot EXCEPT !.pc = "panic"]
               /\ UNCHANGED mem_map
          ELSE /\ mem_map' =
                    IF first = newend
                    THEN phys_remove(mem_map, 0, newend + bytes)
                    ELSE phys_remove(phys_remove(mem_map, again, again + bytes + more),
                                     0, newend)
               /\ boot' = [boot EXCEPT !.pc = "nodes", !.scrubbed = mem_map']
  /\ last' = NoOp
  /\ UNCHANGED <<node_mem, steal, run_vars>>

\* initkalloc, one round of the loop over numa_nodes: a node with memory
\* ranges mems and CPUs cpus.  boot.buddies gets <<base, end, node>> for
\* the live area of each buddy made, boot.nodes the ranges of the node.
init_node_of(ranges) ==
  /\ boot.pc = "nodes"
  /\ Len(boot.nodes) < MaxNodes
  /\ \E mems \in UNION {[1 .. n -> ranges] : n \in 0 .. 2},
        cpus \in SUBSET (CPUs \ boot.assigned) :
       LET declared == mb_loop(<<>>, [i \in 1 .. Len(mems) |->
                                        <<mems[i][1], mems[i][2] - mems[i][1], 1>>], TRUE)
           nm == phys_intersect(declared, mem_map, FALSE)
           subnodes == IF boot.per_cpu THEN Cardinality(cpus) ELSE 1
           size_limit == (phys_bytes(nm) + subnodes - 1) \div subnodes
           made == create_buddies(nm, IF nm = <<>> THEN 0 ELSE nm[1][1], size_limit)
           node_low == Len(boot.buddies)
           node_buddies == Len(made)
           ncpus == Cardinality(cpus)
           cpu_index(c) == Cardinality({d \in cpus : d < c})
           cpu_low(c) == node_low + (cpu_index(c) * node_buddies) \div ncpus
           cpu_high(c) == LET h == node_low + ((cpu_index(c) + 1) * node_buddies) \div ncpus
                          IN IF cpu_low(c) = h THEN h + 1 ELSE h
       IN /\ node_mem' = nm
          /\ mem_map' = phys_remove_map(mem_map, nm)
          /\ IF subnodes = 0 \/ \E c \in cpus : cpu_high(c) > node_low + node_buddies
             THEN \* division by zero, or assert(cpu_high <= node_low + node_buddies)
                  /\ boot' = [boot EXCEPT !.pc = "panic"]
                  /\ UNCHANGED steal
             ELSE /\ boot' = [boot EXCEPT
                       !.buddies = @ \o [i \in 1 .. node_buddies |->
                                           <<made[i][1], made[i][2], Len(boot.nodes) + 1>>],
                       !.nodes = Append(@, declared),
                       !.assigned = @ \cup cpus]
                  /\ steal' = [c \in CPUs |->
                                 IF c \in cpus
                                 THEN add(add(steal[c], cpu_low(c), cpu_high(c)),
                                          node_low, node_low + node_buddies)
                                 ELSE steal[c]]
  /\ last' = NoOp
  /\ UNCHANGED run_vars

\* The same for nodes whose memory ranges lie within 0 .. AddrMax.
init_node == init_node_of(Ranges)

\* initkalloc after the last node: every CPU may steal from any buddy, and
\* memory left in the map is fatal.
init_finish ==
  /\ boot.pc = "nodes"
  /\ steal' = [c \in CPUs |-> add(steal[c], 0, Len(boot.buddies))]
  /\ boot' = [boot EXCEPT !.pc = IF mem_map # <<>> THEN "panic" ELSE "kinited"]
  /\ last' = Did("finish", <<>>, Null)
  /\ UNCHANGED <<mem_map, node_mem, run_vars>>

InitBoot ==
  /\ Unbooted
  /\ steal = [c \in CPUs |-> <<>>]
  /\ mem_map = <<>>
  /\ node_mem = <<>>
  /\ last = NoOp
  /\ \E per_cpu \in BOOLEAN :
       boot = [pc |-> "start", per_cpu |-> per_cpu, scrubbed |-> <<>>,
               buddies |-> <<>>, nodes |-> <<>>, assigned |-> {}]

NextBoot ==
  \/ init_parse
  \/ init_page_info
  \/ init_node
  \/ init_finish

SpecBoot == InitBoot /\ [][NextBoot]_vars

\* PGROUNDUP(a): a rounded up to a page boundary.
PGROUNDUP(a) == ((a + PGSIZE - 1) \div PGSIZE) * PGSIZE

\* pgalloc, called by a kalloc(PGSIZE) that finds kinited unset: the page
\* at PGROUNDUP(newend) is handed out and newend moves on by PGSIZE.
\* boot.newend starts as end, which is what pgalloc reads a newend of 0 as;
\* boot.pages lists the pages handed out.
pgalloc ==
  /\ boot.pc \in {"start", "parsed", "nodes"}
  /\ Len(boot.pages) < MaxBootPages
  /\ boot' = [boot EXCEPT !.pages = Append(@, PGROUNDUP(boot.newend)),
                          !.newend = @ + PGSIZE]
  /\ UNCHANGED <<mem_map, node_mem, last, steal, run_vars>>

\* initkalloc, the page metadata array, with newend followed: newend is
\* rounded up to a page boundary; the array takes bytes there and newend
\* moves behind it, rounded up, or the array takes bytes + more from the map
\* if it is not placed at newend; the memory before newend leaves the map.
init_page_info_newend ==
  /\ boot.pc = "parsed"
  /\ \E bytes \in AllocSizes, more \in 0 .. 1 :
       LET newend == PGROUNDUP(boot.newend)
           first == phys_alloc(mem_map, newend, bytes, 0)
           again == phys_alloc(mem_map, newend, bytes + more, 0)
       IN IF first = Null \/ (first # newend /\ again = Null)
          THEN /\ boot' = [boot EXCEPT !.pc = "panic", !.newend = newend]
               /\ UNCHANGED mem_map
          ELSE /\ mem_map' =
                    IF first = newend
                    THEN phys_remove(mem_map, 0, PGROUNDUP(newend + bytes))
                    ELSE phys_remove(phys_remove(mem_map, again, again + bytes + more),
                                     0, newend)
               /\ boot' = [boot EXCEPT !.pc = "nodes", !.scrubbed = mem_map',
                                       !.newend = IF first = newend
                                                  THEN PGROUNDUP(newend + bytes)
                                                  ELSE newend]
  /\ last' = NoOp
  /\ UNCHANGED <<node_mem, steal, run_vars>>

\* Boot with the kernel ending at any address end from LowMem on.
InitEarly ==
  /\ Unbooted
  /\ steal = [c \in CPUs |-> <<>>]
  /\ mem_map = <<>>
  /\ node_mem = <<>>
  /\ last = NoOp
  /\ \E per_cpu \in BOOLEAN, end \in LowMem .. (LowMem + PGSIZE) :
       boot = [pc |-> "start", per_cpu |-> per_cpu, scrubbed |-> <<>>,
               buddies |-> <<>>, nodes |-> <<>>, assigned |-> {},
               newend |-> end, pages |-> <<>>]

\* initkalloc on a machine with one NUMA node, memory up to MemTop and a
\* firmware map of one usable entry [0, top), with kalloc(PGSIZE) called at
\* any point before kinited is set.
NextEarly ==
  \/ pgalloc
  \/ init_parse_of({<<<<0, top, 1>>>> : top \in 1 .. MemTop})
  \/ init_page_info_newend
  \/ boot.nodes = <<>> /\ init_node_of(IndexRanges(MemTop))
  \/ init_finish

SpecEarly == InitEarly /\ [][NextEarly]_vars

\* ---------------------------------------------------------------- mempool
\* The mempool of buddy b is b itself (buddy_).  Thread t is a CPU at work
\* in a mempool; held are the blocks <<base, order>> callers have.

\* mempool::balance_move_to(target), up to "u64 avail = balance_count()":
\* the count is read under the lock of the source, which is then dropped.
balance_count(t) ==
  /\ At(t, "idle")
  /\ \E src \in Buddies, target \in Buddies :
       /\ lock[src] = NoThread
       /\ th' = [th EXCEPT ![t] = [Idle EXCEPT
                   !.pc = "mv_alloc", !.lb = src, !.target = target,
                   !.avail = get_stats(free[src]),
                   !.size = Min(MAX_SIZE, get_stats(free[src]) \div 2)]]
  /\ UNCHANGED <<boot_vars, hot_max, win, free, lock, steal, hot_pages, nhot, held, cpu,
                 cli, crashed, lifo>>

\* balance_move_to: the lock of the source is taken and alloc_nothrow(size)
\* called; without a block the call returns.  A size of 0 is undefined: the
\* buddy may find nothing, serve a page, or break.
balance_alloc(t) ==
  /\ At(t, "mv_alloc")
  /\ lock[th[t].lb] = NoThread
  /\ LET lb == th[t].lb
         got == alloc_nothrow(free[lb], size_order(th[t].size))
     IN \/ /\ got # {}
           /\ \E r \in got :
                /\ free' = [free EXCEPT ![lb] = r[2]]
                /\ th' = [th EXCEPT ![t].pc = "mv_free", ![t].res = r[1]]
           /\ lock' = [lock EXCEPT ![lb] = t]
           /\ UNCHANGED crashed
        \/ /\ got = {} \/ th[t].size = 0
           /\ th' = [th EXCEPT ![t] = Idle]
           /\ UNCHANGED <<free, lock, crashed>>
        \/ /\ th[t].size = 0
           /\ crashed' = "corrupt"
           /\ UNCHANGED <<free, lock, th>>
  /\ UNCHANGED <<boot_vars, hot_max, win, steal, hot_pages, nhot, held, cpu, cli, lifo>>

\* balance_move_to: target->kfree(res, size) under the lock of the target,
\* then the lock of the source is dropped.
balance_free(t) ==
  /\ At(t, "mv_free")
  /\ lock[th[t].target] = NoThread
  /\ free' = [free EXCEPT ![th[t].target] =
                buddy_free(@, win[th[t].target], th[t].res, size_order(th[t].size))]
  /\ lock' = [lock EXCEPT ![th[t].lb] = NoThread]
  /\ th' = [th EXCEPT ![t] = Idle]
  /\ UNCHANGED <<boot_vars, hot_max, win, steal, hot_pages, nhot, held, cpu, cli,
                 crashed, lifo>>

\* mempool::kalloc(size) on the mempool of buddy b.
mempool_kalloc(t) ==
  /\ At(t, "idle")
  /\ \E b \in Buddies, k \in Orders :
       /\ lock[b] = NoThread
       /\ \E r \in alloc_nothrow(free[b], k) :
            /\ free' = [free EXCEPT ![b] = r[2]]
            /\ held' = held \cup {<<r[1], k>>}
  /\ UNCHANGED <<boot_vars, hot_max, win, lock, steal, hot_pages, nhot, cpu, cli, th,
                 crashed, lifo>>

\* mempool::kfree(v, size) on the mempool of buddy b.
mempool_kfree(t) ==
  /\ At(t, "idle")
  /\ \E b \in Buddies, blk \in held :
       /\ lock[b] = NoThread
       /\ free' = [free EXCEPT ![b] = buddy_free(@, win[b], blk[1], blk[2])]
       /\ held' = held \ {blk}
  /\ UNCHANGED <<boot_vars, hot_max, win, lock, steal, hot_pages, nhot, cpu, cli, th,
                 crashed, lifo>>

\* The load-balancing build after boot: every buddy's window is all of
\* memory, and each thread is a CPU of its own.
InitBalance ==
  /\ Boot(SeqHotHalf, SeqBuddy0Pages, SeqBuddy1Pages)
  /\ win = [b \in Buddies |-> <<0, SeqBuddy0Pages + SeqBuddy1Pages>>]
  /\ cpu = [t \in Threads |-> t - 1]

NextBalance ==
  \E t \in Threads :
    \/ balance_count(t)
    \/ balance_alloc(t)
    \/ balance_free(t)
    \/ mempool_kalloc(t)
    \/ mempool_kfree(t)

SpecBalance == InitBalance /\ [][NextBalance]_vars

\* allmem.add(buddies.size() - 1, p2v(remaining.base), subsize): the
\* mempools of the two buddies, each with its local range <<base_, lim_>>.
mempools ==
  <<<<0, SeqBuddy0Pages>>, <<SeqBuddy0Pages, SeqBuddy0Pages + SeqBuddy1Pages>>>>

\* std::lower_bound(mempools.begin(), mempools.end(), v, comp) with
\* comp(mp, v) = mp.get_limit() < v: the first pool comp does not hold for,
\* or end().
lower_bound(pools, v) ==
  IF \E n \in 1 .. Len(pools) : ~(pools[n][2] < v)
  THEN CHOOSE n \in 1 .. Len(pools) :
         /\ ~(pools[n][2] < v)
         /\ \A j \in 1 .. (n - 1) : pools[j][2] < v
  ELSE Len(pools) + 1

\* memory::kfree_pool: what the search for v's pool can end in, for a CPU
\* whose own pool is own.  Pools are numbered from 0.  With mp == end() the
\* read of mp->get_base() is outside the vector: the call may panic, go on
\* with any pool, or break.
kfree_pool(pools, own, v) ==
  IF pools[own + 1][1] <= v /\ v < pools[own + 1][2]
  THEN {<<"pool", own>>}
  ELSE LET mp == lower_bound(pools, v) IN
       IF mp > Len(pools)
       THEN {<<"panic", Null>>, <<"corrupt", Null>>}
            \cup {<<"pool", n - 1>> : n \in 1 .. Len(pools)}
       ELSE IF v < pools[mp][1]
       THEN {<<"panic", Null>>}
       ELSE {<<"pool", mp - 1>>}

\* memory::kfree_pool(v, size) of a block the caller holds, or of a pointer
\* that was never allocated, followed by mempools[pool].kfree(v, size).  A
\* free of a pointer outside the buddy's window breaks the buddy.
memory_kfree_pool(t) ==
  /\ At(t, "idle")
  /\ \E blk \in held \cup {<<SeqBuddy0Pages + SeqBuddy1Pages, 0>>, <<WildPtr, 0>>} :
       \E o \in kfree_pool(mempools, cpu[t], blk[1]) :
         /\ last' = Did("kfree_pool", <<blk[1], cpu[t]>>, o)
         /\ IF o[1] = "pool"
            THEN /\ lock[o[2]] = NoThread
                 /\ IF contains(win[o[2]], blk[1])
                    THEN /\ free' = [free EXCEPT ![o[2]] =
                                       buddy_free(@, win[o[2]], blk[1], blk[2])]
                         /\ UNCHANGED crashed
                    ELSE /\ crashed' = "corrupt"
                         /\ UNCHANGED free
                 /\ held' = held \ {blk}
            ELSE /\ crashed' = o[1]
                 /\ UNCHANGED <<free, held>>
  /\ UNCHANGED <<mem_map, node_mem, boot, bench, hot_max, win, lock, steal, hot_pages, nhot,
                 cpu, cli, th, lifo>>

\* The load-balancing build freeing through memory::kfree_pool what
\* mempool::kalloc handed out.
NextPool == \E t \in Threads : mempool_kalloc(t) \/ memory_kfree_pool(t)

SpecPool == InitBalance /\ [][NextPool]_vars

\* kmemprint, for one CPU c and one buddy of its local range:
\* auto l = buddies[buddy].lock.guard().  (memory::add takes the lock of the
\* buddy it is given in the same way before it reads the statistics.)
kmemprint_lock(t) ==
  /\ At(t, "idle")
  /\ \E c \in CPUs, b \in Buddies :
       /\ is_local(steal[c], b)
       /\ lock[b] = NoThread
       /\ lock' = [lock EXCEPT ![b] = t]
       /\ th' = [th EXCEPT ![t] = [Idle EXCEPT !.pc = "kp_stats", !.lb = b]]
  /\ UNCHANGED <<boot_vars, hot_max, win, free, steal, hot_pages, nhot, held, cpu, cli,
                 crashed, lifo>>

\* kmemprint: get_stats(&stats); l leaves its scope.
kmemprint_stats(t) ==
  /\ At(t, "kp_stats")
  /\ lock' = [lock EXCEPT ![th[t].lb] = NoThread]
  /\ th' = [th EXCEPT ![t] = [Idle EXCEPT !.avail = get_stats(free[th[t].lb])]]
  /\ UNCHANGED <<boot_vars, hot_max, win, free, steal, hot_pages, nhot, held, cpu, cli,
                 crashed, lifo>>

\* Every caller of the buddies: kalloc and kfree, the mempools, the balancer
\* and kmemprint, on two CPUs whose buddies share one window.  With the
\* small cache both CPUs run all of them; with the large cache, whose flush
\* frees more than one pointer, CPU 0 runs kalloc and kfree while CPU 1
\* prints the statistics.
InitLocks ==
  /\ \/ /\ Boot(HotHalf, Buddy0Pages, Buddy1Pages)
        /\ win = [b \in Buddies |-> <<0, Buddy0Pages + Buddy1Pages>>]
     \/ /\ Boot(SeqHotHalf, SeqBuddy0Pages, SeqBuddy1Pages)
        /\ win = [b \in Buddies |-> <<0, SeqBuddy0Pages + SeqBuddy1Pages>>]
  /\ cpu = [t \in Threads |-> t - 1]

NextLocks ==
  \E t \in Threads :
    \/ kmemprint_lock(t)
    \/ kmemprint_stats(t)
    \/ /\ hot_max = 2 * HotHalf \/ cpu[t] = 0
       /\ Step(t)
    \/ /\ hot_max = 2 * HotHalf
       /\ \/ balance_count(t)
          \/ balance_alloc(t)
          \/ balance_free(t)
          \/ mempool_kalloc(t)
          \/ mempool_kfree(t)

SpecLocks == InitLocks /\ [][NextLocks]_vars

\* ----------------------------------------------------------------- claims

\* C1: under any interleaving of kalloc and kfree calls, every page frame is
\* at all times in exactly one place: free in one buddy, once in one CPU's
\* hot cache, or held by one caller (or carried by the call that moves it).
C1_OnePlace == \A p \in Pages : Cardinality(Owners(p)) = 1

\* The buddy whose lock thread t is about to take, or Null.
WaitsFor(t) ==
  IF th[t].pc \in {"ka_refill_lock", "ka_refill_next", "kf_flush_lock", "kf_gen_lock"}
  THEN th[t].lb
  ELSE IF th[t].pc = "ka_gen_lock" /\ ~WalkDone(Order(th[t].mem), th[t].buddyit)
  THEN Order(th[t].mem)[th[t].buddyit]
  ELSE Null

\* Every thread of W waits for a lock that a thread of W holds.
CircularWait(W) ==
  /\ W # {}
  /\ \A t \in W : WaitsFor(t) # Null /\ lock[WaitsFor(t)] \in W

\* C2: every call completes; no set of CPUs ever waits forever on buddy
\* spinlocks.
C2_NoLockCycle == \A W \in SUBSET Threads : ~CircularWait(W)

\* C3: at every point of every code path a CPU holds at most one buddy
\* spinlock.
C3_OneLock == \A t \in Threads : Cardinality(Holds(t)) <= 1

\* The pcs at which the next statement reads or writes mem->hot_pages or
\* mem->nhot.
CachePcs == {"ka_refill", "ka_pop", "kf_sort", "kf_flush", "kf_flush_free",
             "kf_shift", "kf_push"}

\* C4: the hot-page cache of CPU c is read and written only by code executing
\* on CPU c, and only while interrupts are disabled on c.
C4_OwnCpuCli ==
  \A t \in Threads : th[t].pc \in CachePcs => cli[t] /\ cpu[t] = th[t].mem

\* C5: for every CPU, 0 <= nhot <= KALLOC_HOT_PAGES in every reachable state,
\* and every pointer in hot_pages[0..nhot) lies in some buddy's window.
C5_HotBounds ==
  \A c \in CPUs :
    /\ 0 <= nhot[c]
    /\ nhot[c] <= KALLOC_HOT_PAGES
    /\ \A s \in 0 .. (nhot[c] - 1) :
         \E b \in Buddies : contains(win[b], hot_pages[c][s])

\* C6: after kfree(p, PGSIZE) on CPU c, the next kalloc(PGSIZE) on c with no
\* other access to c's cache in between returns exactly p, whatever nhot was
\* before the free (KALLOC_HOT_PAGES, where the free first flushes, included).
C6_Lifo ==
  \A t \in Threads :
    th[t].pc = "ka_ret" /\ th[t].expect # NoPush => th[t].res = th[t].expect[1]

\* A kalloc returns the page of a kfree that found the cache full.
C6_Witness ==
  \E t \in Threads :
    /\ th[t].pc = "ka_ret"
    /\ th[t].expect # NoPush
    /\ th[t].expect[2] = KALLOC_HOT_PAGES
    /\ th[t].res = th[t].expect[1]

\* What the returning step of a page-sized kfree by thread t must satisfy.
FlushContract(t) ==
  LET r == th[t]
      c == r.mem
      half == KALLOC_HOT_PAGES \div 2
  IN IF r.nhot0 = KALLOC_HOT_PAGES
     THEN /\ Len(r.sent) = half
          /\ \A n \in 1 .. (half - 1) : r.sent[n] < r.sent[n + 1]
          /\ {r.sent[n] : n \in 1 .. half} = {r.snap[n] : n \in 1 .. half}
          /\ \A n \in 1 .. half :
               \E b \in Buddies : \E blk \in free[b] : r.sent[n] \in BlockPages(blk)
          /\ \A n \in 1 .. (KALLOC_HOT_PAGES - half) :
               hot_pages'[c][n - 1] = r.snap[half + n]
          /\ hot_pages'[c][KALLOC_HOT_PAGES - half] = r.v
          /\ nhot'[c] = half + 1
     ELSE /\ r.sent = <<>>
          /\ r.snap = <<>>
          /\ hot_pages'[c][r.nhot0] = r.v
          /\ nhot'[c] = r.nhot0 + 1

\* C7: a page-sized kfree flushes if and only if nhot == KALLOC_HOT_PAGES on
\* entry; the flush hands exactly the KALLOC_HOT_PAGES/2 bottom entries to
\* buddies, in ascending address order; the other entries keep their order;
\* the call ends with nhot == KALLOC_HOT_PAGES/2 + 1.
C7_Flush ==
  [][\A t \in Threads :
       th[t].pc = "kf_push" /\ th'[t].pc = "idle" => FlushContract(t)]_vars

\* A kfree that flushed a cache whose bottom entries were out of order is
\* about to push.
C7_Witness ==
  \E t \in Threads :
    /\ th[t].pc = "kf_push"
    /\ th[t].nhot0 = KALLOC_HOT_PAGES
    /\ Len(th[t].sent) = KALLOC_HOT_PAGES \div 2
    /\ th[t].snap[1] > th[t].snap[2]

KallocPcs == {"ka_refill_lock", "ka_refill", "ka_refill_next", "ka_refill_handoff",
              "ka_pop", "ka_gen_lock", "ka_gen_alloc", "ka_ret"}

\* The buddies of a steal order.
InOrder(order) == {order[n] : n \in 1 .. Len(order)}

\* C8: kalloc returns null only after every buddy of the calling CPU's steal
\* order was asked under its lock and had no block; without concurrent
\* activity a kalloc that the hot cache or a buddy can serve returns (it does
\* not wait forever).
C8_NullOnlyExhausted ==
  \A t \in Threads :
    /\ th[t].pc = "ka_ret" /\ th[t].res = Null
         => th[t].asked = InOrder(Order(th[t].mem))
    /\ th[t].pc \in KallocPcs => ~CircularWait({t})

\* A step of thread t inside a kalloc of more than MAX_SIZE.
OversizeStep(t) ==
  /\ th[t].size > MAX_ORDER
  /\ th[t].pc \in {"ka_gen_lock", "ka_gen_alloc"}
  /\ th'[t] # th[t]

\* C9 (as amended): kalloc with size larger than MAX_SIZE returns null and
\* changes no buddy and no hot cache; it takes and releases the lock of every
\* buddy of the steal order on the way.
C9_OversizeNull ==
  [][\A t \in Threads :
       OversizeStep(t) =>
         /\ free' = free /\ hot_pages' = hot_pages /\ nhot' = nhot
         /\ th'[t].pc = "ka_ret" =>
              /\ th'[t].res = Null
              /\ th'[t].asked = InOrder(Order(th[t].mem))
              /\ \A b \in Buddies : lock'[b] # t]_vars

\* An oversize kalloc returns null although buddies have free blocks.
C9_Witness ==
  \E t \in Threads :
    /\ th[t].pc = "ka_ret"
    /\ th[t].size > MAX_ORDER
    /\ th[t].res = Null
    /\ th[t].asked = Buddies
    /\ \A b \in Buddies : free[b] # {}

\* C9 as stated: kalloc with size larger than MAX_SIZE returns null without
\* acquiring any buddy lock and without changing any buddy or hot cache.
C9_NoLock ==
  [][\A t \in Threads :
       OversizeStep(t) =>
         /\ lock' = lock
         /\ free' = free /\ hot_pages' = hot_pages /\ nhot' = nhot
         /\ th'[t].pc = "ka_ret" => th'[t].res = Null]_vars

\* C10: kfree(v, size) where v lies in no buddy window panics instead of
\* returning, for every size, page-sized frees included.
C10_WildFreePanics ==
  [][\A t \in Threads :
       th[t].pc \in KfreePcs /\ th[t].v = WildPtr => th'[t].pc # "idle"]_vars

\* The regions of R are sorted by base, pairwise disjoint, and non-empty.
WellFormed(R) ==
  /\ \A i \in 1 .. Len(R) : R[i][1] < R[i][2]
  /\ \A i, j \in 1 .. Len(R) : i < j => R[i][2] <= R[j][1]

\* C11: after any sequence of add(base, end), remove(base, end),
\* remove(other) and intersect(other) starting from the empty map, the
\* regions of a phys_map are sorted by base, pairwise disjoint, and have
\* base < end.
C11_MapWellFormed == WellFormed(mem_map) /\ WellFormed(node_mem)

\* A map of two regions that a remove has split out of one, next to a
\* second map that is not empty.
C11_Witness ==
  /\ last.op = "remove"
  /\ Len(last.before) = 1
  /\ Len(mem_map) = 2
  /\ last.before[1][1] < last.args[1]
  /\ last.args[2] < last.before[1][2]
  /\ node_mem # <<>>

\* The last two operations were mem.add(x) and then mem.remove(x).
AddThenRemove == last.op = "remove" /\ last.undo # <<>>

\* The range of the last operation shares no byte with map R.
ApartFrom(R) == Bytes(R) \cap (last.args[1] .. (last.args[2] - 1)) = {}

\* C12: for every map M and every range x that shares no byte with M,
\* M.add(x) followed by M.remove(x) leaves the regions of M unchanged.
C12_AddRemoveApart ==
  (AddThenRemove /\ ApartFrom(last.undo[1])) => mem_map = last.undo[1]

\* add(x) and remove(x) on a map of two regions that x lies between and
\* touches, so that the add merged all three.
C12_Witness ==
  /\ AddThenRemove
  /\ ApartFrom(last.undo[1])
  /\ Len(last.undo[1]) = 2
  /\ Len(last.before) = 1
  /\ mem_map = last.undo[1]

\* C12 as stated: for every map M and range x, M.add(x) followed by
\* M.remove(x) leaves the regions of M unchanged.
C12_AddRemove == AddThenRemove => mem_map = last.undo[1]

\* C13: A.intersect(B) leaves in A exactly the bytes that were in both A and
\* B (so {[0,2),[3,5)} intersected with {[1,4)} is {[1,2),[3,4)});
\* B.intersect(A) leaves the same bytes; A.intersect(A) leaves A unchanged;
\* intersecting with an empty map empties A.
C13_Intersect ==
  /\ last.op = "intersect" =>
       /\ Bytes(mem_map) = Bytes(last.before) \cap Bytes(last.other)
       /\ Bytes(mem_map) = Bytes(phys_intersect(last.other, last.before, FALSE))
       /\ last.other = <<>> => mem_map = <<>>
       /\ (last.before = <<<<0, 2>>, <<3, 5>>>> /\ last.other = <<<<1, 4>>>>)
            => mem_map = <<<<1, 2>>, <<3, 4>>>>
  /\ last.op = "node_intersect" =>
       /\ Bytes(node_mem) = Bytes(last.before) \cap Bytes(last.other)
       /\ last.before = <<>> => node_mem = <<>>
  /\ last.op = "intersect_self" => mem_map = last.before

\* The intersect of {[0,2),[3,5)} with {[1,4)} has taken place.
C13_Witness ==
  /\ last.op = "intersect"
  /\ last.before = <<<<0, 2>>, <<3, 5>>>>
  /\ last.other = <<<<1, 4>>>>
  /\ mem_map = <<<<1, 2>>, <<3, 4>>>>

\* A map of two regions has been intersected with itself.
C13_WitnessSelf == last.op = "intersect_self" /\ Len(mem_map) = 2

\* A map that was not empty has been intersected with the empty map.
C13_WitnessEmpty ==
  last.op = "intersect" /\ last.before # <<>> /\ last.other = <<>> /\ mem_map = <<>>

\* C14: alloc(start, size, align) returns the smallest address p >= start
\* (>= the first region's base when start is 0) that is a multiple of align
\* and has [p, p + size) within a single region, the exact fit
\* p + size = end and a start in a gap between regions included; it panics
\* only when no such p exists.
C14_AllocSmallestFit ==
  last.op = "alloc" =>
    LET R == last.before
        start == last.args[1]
        size == last.args[2]
        align == last.args[3]
        lo == IF start = 0 /\ R # <<>> THEN R[1][1] ELSE start
        fits == {p \in lo .. AddrMax :
                   /\ align # 0 => p % align = 0
                   /\ \E i \in 1 .. Len(R) : R[i][1] <= p /\ p + size <= R[i][2]}
    IN IF fits = {} THEN last.ret = Null
       ELSE last.ret \in fits /\ \A p \in fits : last.ret <= p

\* C15: after boot (add(L), add(N), add([0, nbuddies)) with L the CPU's
\* local range and N its node's), a steal order holds at most five
\* segments, pairwise disjoint; iteration yields every buddy index in
\* [0, nbuddies) exactly once; the first segment equals L, so get_local()
\* is L and is_local(i) holds exactly for the i in L.
C15_BootOrder ==
  \A c \in CPUs :
    (boot.pc = "assoc" /\ boot.done[c] = 2) =>
      LET segs == steal[c]
          it == Iterate(segs)
      IN /\ Len(segs) <= MAX_SEGMENTS
         /\ \A i, j \in 1 .. Len(segs) :
              i < j => (segs[i][2] <= segs[j][1] \/ segs[j][2] <= segs[i][1])
         /\ \A b \in 0 .. (boot.nbuddies - 1) :
              Cardinality({i \in 1 .. Len(it) : it[i] = b}) = 1
         /\ Len(it) = boot.nbuddies
         /\ segs[1] = <<boot.place[c][1], boot.place[c][2]>>
         /\ \A b \in 0 .. (boot.nbuddies - 1) :
              is_local(segs, b) <=> (boot.place[c][1] <= b /\ b < boot.place[c][2])

\* CPU 0 has its order, of three segments: its local buddy 2 in the node of
\* buddies 1 to 3, in a machine of four.
C15_Witness ==
  /\ boot.pc = "assoc"
  /\ boot.done[0] = 2
  /\ boot.place[0] = <<2, 3, 1, 4>>
  /\ boot.nbuddies = 4
  /\ Len(steal[0]) >= 3

\* C16: for every placement of a CPU's local buddies and NUMA node within
\* the buddy array, iterating its steal order visits the local buddies
\* first, then the other buddies of its own node, then the buddies of other
\* nodes: no buddy of another node comes before a buddy of its own node.
C16_LocalNodeGlobal ==
  \A c \in CPUs :
    (boot.pc = "assoc" /\ boot.done[c] = 2) =>
      LET it == Iterate(steal[c])
          stratum(b) == IF boot.place[c][1] <= b /\ b < boot.place[c][2] THEN 0
                        ELSE IF boot.place[c][3] <= b /\ b < boot.place[c][4] THEN 1
                        ELSE 2
      IN \A i, j \in 1 .. Len(it) : i < j => stratum(it[i]) <= stratum(it[j])

\* C20: after any sequence of add(low, high) with arbitrary ranges (a new
\* range strictly inside an existing segment, or sharing only its lower
\* bound, included), the segments are pairwise disjoint and iteration never
\* yields a buddy index twice.
C20_AddSubtracts ==
  LET segs == steal[0]
      it == Iterate(segs)
  IN /\ \A i, j \in 1 .. Len(segs) :
          i < j => (segs[i][2] <= segs[j][1] \/ segs[j][2] <= segs[i][1])
     /\ \A i, j \in 1 .. Len(it) : i < j => it[i] # it[j]

\* C19: for every firmware memory map (entries in any order, usable and
\* reserved entries overlapping), parse_mb_map followed by remove(0, 1 MiB)
\* leaves exactly the bytes that lie in some usable entry, in no reserved
\* entry, and at or above 1 MiB; the result does not depend on the order of
\* the entries.
C19_ParsedBytes ==
  (boot.pc = "parsed" /\ last.op = "parse") =>
    LET mb == last.args
        covered(type) == UNION {mb[i][1] .. (mb[i][1] + mb[i][2] - 1) :
                                  i \in {j \in 1 .. Len(mb) : (mb[j][3] = 1) = type}}
        reversed == [i \in 1 .. Len(mb) |-> mb[Len(mb) + 1 - i]]
    IN /\ Bytes(mem_map) = {a \in covered(TRUE) \ covered(FALSE) : a >= LowMem}
       /\ mem_map = phys_remove(parse_mb_map(<<>>, reversed), 0, LowMem)

\* A map of three entries has been parsed: two usable entries that overlap
\* and a reserved entry inside them, listed between them.
C19_Witness ==
  /\ boot.pc = "parsed"
  /\ last.op = "parse"
  /\ last.args = <<<<2, 3, 1>>, <<2, 1, 2>>, <<0, 3, 1>>>>
  /\ mem_map = <<<<1, 2>>, <<3, 5>>>>

\* C18: for every list of NUMA nodes, nodes whose memory ranges overlap
\* included, initkalloc builds buddies whose live areas are pairwise
\* disjoint and lie each inside the scrubbed usable memory of one node, its
\* own; it reaches kinited = 1 only if the physical map is empty after the
\* last node, and panics otherwise.
C18_NodesDisjoint ==
  boot.pc \in {"nodes", "kinited", "panic"} =>
    LET B == boot.buddies
        live(i) == B[i][1] .. (B[i][2] - 1)
    IN /\ \A i, j \in 1 .. Len(B) : i # j => live(i) \cap live(j) = {}
       /\ \A i \in 1 .. Len(B) :
            /\ B[i][1] < B[i][2]
            /\ live(i) \subseteq Bytes(boot.scrubbed)
            /\ live(i) \subseteq Bytes(boot.nodes[B[i][3]])
       /\ boot.pc = "kinited" => mem_map = <<>>
       /\ last.op = "finish" => (boot.pc = "panic" <=> mem_map # <<>>)

\* Boot has completed with two nodes whose ranges overlap, each with a
\* buddy of its own.
C18_Witness ==
  /\ boot.pc = "kinited"
  /\ Len(boot.nodes) = 2
  /\ Bytes(boot.nodes[1]) \cap Bytes(boot.nodes[2]) \cap Bytes(boot.scrubbed) # {}
  /\ \E i, j \in 1 .. Len(boot.buddies) : boot.buddies[i][3] = 1 /\ boot.buddies[j][3] = 2

\* C17: balance_move_to(target) either moves one block of S = min(count/2,
\* MAX_SIZE) bytes from the source buddy to the target buddy, after which
\* the block is free in the target and no longer in the source and the free
\* memory of the two is in total what it was, or, when the source cannot
\* supply a block of size S, leaves both buddies unchanged; also when other
\* CPUs allocate from or free to the source between the count read and the
\* allocation.
C17_MoveContract ==
  [][\A t \in Threads :
       LET S == th[t].size
           src == th[t].lb
           tgt == th[t].target
           bytes(F) == get_stats(F) * PGSIZE
       IN /\ (th[t].pc = "mv_alloc" /\ th'[t].pc = "mv_free") =>
               /\ bytes(free[src]) - bytes(free'[src]) = S
               /\ \A b \in Buddies \ {src} : free'[b] = free[b]
          /\ (th[t].pc = "mv_alloc" /\ th'[t].pc = "idle") =>
               /\ free' = free
               /\ alloc_nothrow(free[src], size_order(S)) = {}
          /\ (th[t].pc = "mv_alloc" /\ th'[t].pc = "mv_alloc") => crashed' = crashed
          /\ (th[t].pc = "mv_free" /\ th'[t].pc = "idle") =>
               /\ bytes(free'[tgt]) - bytes(free[tgt]) = S
               /\ \A b \in Buddies \ {tgt} : free'[b] = free[b]
               /\ \A p \in th[t].res .. (th[t].res + Pow2(size_order(S)) - 1) :
                    \E blk \in free'[tgt] : p \in BlockPages(blk)
    ]_vars

\* C21: every call of alloc_nothrow, free or get_stats on a buddy is made
\* by the thread that holds the buddy's spinlock: a thread about to make
\* such a call (refill, general path, flush with a fresh or a reused buddy,
\* balance_move_to, kmemprint) holds the lock of that buddy, and the free
\* lists of a buddy whose lock is held change only in a step of the holder.
C21_CallsUnderLock ==
  /\ [](\A t \in Threads :
          LET r == th[t] IN
          (\/ r.pc \in {"ka_refill", "ka_gen_alloc", "kf_flush_free", "kf_gen_free",
                        "kp_stats", "mv_free"}
           \/ r.pc = "kf_flush" /\ r.lb # Null)
          => r.lb \in Buddies /\ lock[r.lb] = t)
  /\ [][\A b \in Buddies :
          free'[b] # free[b] /\ lock[b] # NoThread
          => LET u == lock[b] IN
             \/ th'[u] # th[u]
             \/ th[u].pc = "ka_refill" /\ nhot'[th[u].mem] = nhot[th[u].mem] + 1]_vars

\* A flush that is about to free its second pointer into the buddy of the
\* first one while the other CPU reads the statistics of the other buddy.
C21_Witness ==
  \E t \in Threads, u \in Threads :
    LET r == th[t] IN
    /\ r.pc = "kf_flush" /\ r.i >= 1 /\ r.i < KALLOC_HOT_PAGES \div 2
    /\ r.lb # Null /\ contains(win[r.lb], hot_pages[r.mem][r.i])
    /\ lock[r.lb] = t
    /\ u # t /\ th[u].pc = "kp_stats" /\ lock[th[u].lb] = u

\* C22: the buddy a flush or a non-page kfree is about to free a block into
\* contains the pointer, and no buddy before it in the steal order of the
\* calling CPU does; this includes the flush passes that keep the buddy of
\* the previous pointer.
C22_FirstContaining ==
  \A t \in Threads :
    LET r == th[t]
        order == Order(cpu[t])
        First(ptr) ==
          \E n \in 1 .. Len(order) :
            /\ order[n] = r.lb
            /\ contains(win[r.lb], ptr)
            /\ \A j \in 1 .. (n - 1) : ~contains(win[order[j]], ptr)
    IN /\ r.pc = "kf_flush_free" => First(hot_pages[r.mem][r.i])
       /\ ( /\ r.pc = "kf_flush" /\ r.i < KALLOC_HOT_PAGES \div 2
            /\ r.lb # Null /\ contains(win[r.lb], hot_pages[r.mem][r.i]) )
          => First(hot_pages[r.mem][r.i])
       /\ r.pc = "kf_gen_free" => First(r.v)

\* A flush on CPU 1, whose order starts with buddy 1, about to free its
\* second pointer into the buddy of the first while buddy 0 contains both.
C22_Witness ==
  \E t \in Threads :
    LET r == th[t] IN
    /\ r.pc = "kf_flush" /\ r.i = 1 /\ r.lb = 1 /\ cpu[t] = 1
    /\ contains(win[1], hot_pages[r.mem][1])
    /\ contains(win[0], hot_pages[r.mem][1])
    /\ r.sent = <<hot_pages[r.mem][0]>>

\* A free of two pages on CPU 1 about to enter buddy 1, the first of its
\* order, while buddy 0 contains the block as well.
C22_WitnessGeneral ==
  \E t \in Threads :
    /\ th[t].pc = "kf_gen_free" /\ th[t].size = 1 /\ th[t].lb = 1 /\ cpu[t] = 1
    /\ contains(win[0], th[t].v)

\* C23: while a refill runs, the steal events it has recorded are the moves
\* it has made onto buddies outside the local range of its CPU: one for
\* each position of the steal order it has moved to that is not local, and
\* none for the step past the last buddy.
C23_StealCount ==
  \A t \in Threads :
    LET r == th[t]
        order == Order(r.mem)
    IN r.pc = "ka_refill"
       => r.steals = Cardinality({j \in 2 .. Min(r.buddyit, Len(order)) :
                                    ~is_local(steal[r.mem], order[j])})

\* The refill of a CPU with two buddies that found buddy 0, its local one,
\* empty and took a page from buddy 1: one steal event.
C23_WitnessTwo ==
  \E t \in Threads :
    LET r == th[t] IN
    /\ r.pc = "ka_refill" /\ r.mem = 0 /\ r.lb = 1 /\ r.buddyit = 2
    /\ is_local(steal[0], 0) /\ ~is_local(steal[0], 1)
    /\ nhot[0] = 1 /\ r.steals = 1

\* C24: every step of a kalloc(PGSIZE) that found nhot > 0 and of a
\* kfree(v, PGSIZE) that found nhot < KALLOC_HOT_PAGES takes no buddy lock
\* and leaves the free lists of every buddy and the cache of every other
\* CPU as they are; the call goes straight to the pop or the push, which
\* moves nhot of the calling CPU by one and touches that one entry.
C24_HotPathFrame ==
  [][\A t \in Threads :
       LET r == th[t]
           c == cpu[t]
           pc2 == th'[t].pc
           Same == /\ lock' = lock /\ free' = free
                   /\ \A d \in CPUs \ {c} :
                        hot_pages'[d] = hot_pages[d] /\ nhot'[d] = nhot[d]
       IN /\ ( /\ r.pc = "idle" /\ pc2 \in {"ka_refill_lock", "ka_pop"}
               /\ nhot[c] > 0 )
             => pc2 = "ka_pop" /\ Same /\ hot_pages' = hot_pages /\ nhot' = nhot
          /\ (r.pc = "ka_pop" /\ pc2 # "ka_pop")
             => /\ pc2 = "ka_ret" /\ Same
                /\ nhot'[c] = nhot[c] - 1
                /\ th'[t].res = hot_pages[c][nhot[c] - 1]
                /\ \A n \in 0 .. (nhot[c] - 2) : hot_pages'[c][n] = hot_pages[c][n]
          /\ (r.pc = "ka_ret" /\ r.size = 0 /\ pc2 # "ka_ret")
             => pc2 = "idle" /\ Same /\ hot_pages' = hot_pages /\ nhot' = nhot
          /\ (r.pc = "idle" /\ pc2 = "kf_hot")
             => Same /\ hot_pages' = hot_pages /\ nhot' = nhot
          /\ (r.pc = "kf_hot" /\ pc2 # "kf_hot" /\ nhot[c] < KALLOC_HOT_PAGES)
             => pc2 = "kf_push" /\ Same /\ hot_pages' = hot_pages /\ nhot' = nhot
          /\ (r.pc = "kf_push" /\ pc2 # "kf_push")
             => /\ pc2 = "idle" /\ Same
                /\ nhot'[c] = nhot[c] + 1
                /\ hot_pages'[c] = [hot_pages[c] EXCEPT ![nhot[c]] = r.v]]_vars

\* A kalloc that found the page of the kfree before it on top of the cache
\* and popped it, with pages left in the cache and no lock taken.
C24_Witness ==
  \E t \in Threads :
    /\ th[t].pc = "ka_ret" /\ th[t].size = 0
    /\ th[t].expect # NoPush /\ th[t].res = th[t].expect[1]
    /\ nhot[cpu[t]] > 0
    /\ \A b \in DOMAIN lock : lock[b] = NoThread

\* C25: memory::kfree_pool(v, size) hands v to the pool whose local range
\* [base_, lim_) contains v, whenever there is one, and panics when v is in
\* no pool's local range.
C25_PoolOfPointer ==
  last.op = "kfree_pool"
  => LET v == last.args[1]
         In(n) == mempools[n][1] <= v /\ v < mempools[n][2]
     IN /\ \A n \in 1 .. Len(mempools) : In(n) => last.ret = <<"pool", n - 1>>
        /\ (\A n \in 1 .. Len(mempools) : ~In(n)) => last.ret = <<"panic", Null>>

\* The same for the pointers the own pool contains, which need no search.
C25_OwnPool ==
  last.op = "kfree_pool"
  => LET v == last.args[1]
         own == last.args[2] + 1
     IN (mempools[own][1] <= v /\ v < mempools[own][2])
        => last.ret = <<"pool", own - 1>>

\* C26: the step of initkalloc for a node with CPUs never fails the
\* assertion on cpu_high (seen in the build with one subnode per node,
\* where nothing else in the step can panic), and gives every CPU of the
\* node a non-empty local range [cpu_low, cpu_high) with
\* node_low <= cpu_low < cpu_high <= node_low + node_buddies.
C26_LocalRanges ==
  [][boot.pc = "nodes"
     => /\ ~boot.per_cpu => boot'.pc # "panic"
        /\ boot'.pc = "nodes"
           => \A c \in boot'.assigned \ boot.assigned :
                /\ Len(boot.buddies) <= steal'[c][1][1]
                /\ steal'[c][1][1] < steal'[c][1][2]
                /\ steal'[c][1][2] <= Len(boot'.buddies)]_vars

\* What holds instead: the CPUs of a node that completes its step have
\* such local ranges.
C26_RangesOfCompletedNodes ==
  [][(boot.pc = "nodes" /\ boot'.pc = "nodes")
     => \A c \in boot'.assigned \ boot.assigned :
          /\ Len(boot.buddies) <= steal'[c][1][1]
          /\ steal'[c][1][1] < steal'[c][1][2]
          /\ steal'[c][1][2] <= Len(boot'.buddies)]_vars

\* C27: every page pgalloc has handed out is page-aligned, differs from
\* the pages handed out before it, and is not a page of the live area of
\* any buddy.
C27_BootPages ==
  \A i \in 1 .. Len(boot.pages) :
    LET p == boot.pages[i] IN
    /\ p % PGSIZE = 0
    /\ \A j \in 1 .. (i - 1) : boot.pages[j] # p
    /\ \A k \in 1 .. Len(boot.buddies) :
         ~(boot.buddies[k][1] <= p /\ p + PGSIZE <= boot.buddies[k][2])

\* What holds instead: the pages are aligned and distinct, and the pages
\* handed out before the memory below newend leaves the map lie below
\* newend, where nothing of the map is left for a buddy.
C27_AlignedDistinct ==
  \A i \in 1 .. Len(boot.pages) :
    /\ boot.pages[i] % PGSIZE = 0
    /\ \A j \in 1 .. (i - 1) : boot.pages[j] # boot.pages[i]

C27_BeforeRemoval ==
  [][(boot.pc = "parsed" /\ boot'.pc = "nodes")
     => /\ \A i \in 1 .. Len(boot.pages) : boot.pages[i] + PGSIZE <= boot'.newend
        /\ \A n \in 1 .. Len(mem_map') : boot'.newend <= mem_map'[n][1]]_vars

\* ---------------------------------------------------------------------
\* gcbench (bin/gcbench.cc) run as "gcbench nproc batchsize mem": the
\* parent main(), the children it forks and the records that reach the
\* control channel /dev/gc.
\*
\* bench.fds is the set of descriptors the parent has open on /dev/gc and
\* bench.kid[w].fds the same for child w; own is the subset the process
\* opened itself (the rest came with fork). bench.log is the sequence of
\* records the device has received.

\* The operations of one memtest(), in the order of its two ctrl calls.
memtest_flipped == <<2, 1>>

memtest == <<1, 2>>

Kids == 1 .. MaxProc

\* The lowest descriptor not in use (0, 1 and 2 are the standard ones).
LowestFd(fds) == CHOOSE n \in 3 .. (3 + Cardinality(fds)) :
                   /\ n \notin fds
                   /\ \A m \in 3 .. (n - 1) : m \in fds

InitBench ==
  /\ hot_max = 0
  /\ win = [b \in Buddies |-> <<0, 0>>]
  /\ free = [b \in Buddies |-> {}]
  /\ lock = [b \in Buddies |-> NoThread]
  /\ steal = [c \in CPUs |-> <<>>]
  /\ hot_pages = [c \in CPUs |-> <<>>]
  /\ nhot = [c \in CPUs |-> 0]
  /\ held = {}
  /\ cpu = [t \in Threads |-> 0]
  /\ cli = [t \in Threads |-> FALSE]
  /\ th = [t \in Threads |-> Idle]
  /\ crashed = "no"
  /\ lifo = [c \in CPUs |-> NoPush]
  /\ mem_map = <<>>
  /\ node_mem = <<>>
  /\ boot = [pc |-> "kinited"]
  /\ last = NoOp
  /\ \E n \in 0 .. MaxProc :
       bench = [main |-> "ctrl_init", nproc |-> n, i |-> 0, cpu |-> 0,
                fd_ctrl |-> 0, fds |-> {}, own |-> {}, reaped |-> {},
                log |-> <<>>,
                kid |-> [w \in Kids |->
                          [pc |-> "unborn", cpu |-> 0, fd_ctrl |-> 0,
                           fds |-> {}, own |-> {}, i |-> 0, op |-> 1,
                           batch |-> 0]]]

bench_frame == UNCHANGED <<hot_max, win, free, lock, steal, hot_pages, nhot,
                           held, cpu, cli, th, crashed, lifo, mem_map,
                           node_mem, boot, last>>

\* main, line 169: ctrl_init() opens /dev/gc or dies.
main_ctrl_init ==
  /\ bench.main = "ctrl_init"
  /\ \/ LET fd == LowestFd(bench.fds)
        IN  bench' = [bench EXCEPT !.fd_ctrl = fd, !.fds = @ \cup {fd},
                                   !.own = @ \cup {fd}, !.main = "ctrl"]
     \/ bench' = [bench EXCEPT !.fd_ctrl = -1, !.main = "died"]
  /\ bench_frame

\* main, line 170: ctrl(nproc, batchsize, 0) writes the record through
\* fd_ctrl; a failed write ends the program.
main_ctrl ==
  /\ bench.main = "ctrl"
  /\ \/ /\ bench.fd_ctrl \in bench.fds
        /\ bench' = [bench EXCEPT
             !.log = Append(@, [pid |-> 0, ncore |-> bench.nproc, op |-> 0,
                                own |-> bench.fd_ctrl \in bench.own]),
             !.main = "ctrl_done"]
     \/ bench' = [bench EXCEPT !.main = "died"]
  /\ bench_frame

\* main, line 171: ctrl_done() closes the descriptor.
main_ctrl_done ==
  /\ bench.main = "ctrl_done"
  /\ bench' = [bench EXCEPT !.fds = @ \ {bench.fd_ctrl},
                            !.own = @ \ {bench.fd_ctrl}, !.main = "fork"]
  /\ bench_frame

\* main, lines 173-183: one turn of the fork loop. The child starts with a
\* copy of the parent's globals and descriptors; a failed fork ends the
\* parent.
main_fork ==
  /\ bench.main = "fork"
  /\ IF bench.i < bench.nproc
     THEN \/ bench' = [bench EXCEPT
                 !.kid[bench.i + 1] =
                     [pc |-> "setup", cpu |-> bench.cpu,
                      fd_ctrl |-> bench.fd_ctrl, fds |-> bench.fds,
                      own |-> {}, i |-> 0, op |-> 1, batch |-> 0],
                 !.cpu = @ + 1, !.i = @ + 1]
          \/ bench' = [bench EXCEPT !.main = "died"]
     ELSE bench' = [bench EXCEPT !.main = "wait", !.i = 0]
  /\ bench_frame

\* main, lines 184-187: one wait() of the second loop, which returns when
\* a child has exited (at once when there is no child left), and after the
\* loop the "done" line and exit().
main_wait ==
  /\ bench.main = "wait"
  /\ LET born == {w \in Kids : bench.kid[w].pc # "unborn"} \ bench.reaped
     IN  IF bench.i < bench.nproc
         THEN IF born = {}
              THEN bench' = [bench EXCEPT !.i = @ + 1]
              ELSE \E w \in born :
                     /\ bench.kid[w].pc = "exited"
                     /\ bench' = [bench EXCEPT !.reaped = @ \cup {w},
                                               !.i = @ + 1]
         ELSE bench' = [bench EXCEPT !.main = "done"]
  /\ bench_frame

\* child, lines 116-127: setaffinity, the file f<cpu> and, on CPU 0,
\* stats(0); each of them can end the child through die.
child_setup(w) ==
  /\ bench.kid[w].pc = "setup"
  /\ \E pc \in {"ctrl_init", "exited"} :
       bench' = [bench EXCEPT !.kid[w].pc = pc]
  /\ bench_frame

\* child, lines 128-130: ctrl_init() of the child.
child_ctrl_init(w) ==
  /\ bench.kid[w].pc = "ctrl_init"
  /\ \/ LET fd == LowestFd(bench.kid[w].fds)
        IN  bench' = [bench EXCEPT !.kid[w].fd_ctrl = fd,
                                   !.kid[w].fds = @ \cup {fd},
                                   !.kid[w].own = @ \cup {fd},
                                   !.kid[w].pc = "memtest"]
     \/ bench' = [bench EXCEPT !.kid[w].fd_ctrl = -1, !.kid[w].pc = "exited"]
  /\ bench_frame

\* child, lines 134-141: the next ctrl call of memtest(). After the second
\* one the for loop goes on; after its last turn the clock decides whether
\* the do loop runs once more.
child_memtest(w) ==
  /\ bench.kid[w].pc = "memtest"
  /\ LET k == bench.kid[w]
         wrote == [bench EXCEPT
                     !.log = Append(@, [pid |-> w, ncore |-> 8,
                                        op |-> memtest[k.op],
                                        own |-> k.fd_ctrl \in k.own])]
     IN  \/ /\ k.fd_ctrl \in k.fds
            /\ IF k.op < Len(memtest)
               THEN bench' = [wrote EXCEPT !.kid[w].op = @ + 1]
               ELSE IF k.i + 1 < BatchOps
               THEN bench' = [wrote EXCEPT !.kid[w].op = 1,
                                           !.kid[w].i = @ + 1]
               ELSE \/ /\ k.batch + 1 < MaxBatches
                       /\ bench' = [wrote EXCEPT !.kid[w].op = 1,
                                                 !.kid[w].i = 0,
                                                 !.kid[w].batch = @ + 1]
                    \/ bench' = [wrote EXCEPT !.kid[w].pc = "ctrl_done"]
         \/ bench' = [bench EXCEPT !.kid[w].pc = "exited"]
  /\ bench_frame

\* child, lines 142-153 and main, line 179: ctrl_done() closes the
\* descriptor, then the statistics, unlink and exit().
child_ctrl_done(w) ==
  /\ bench.kid[w].pc = "ctrl_done"
  /\ bench' = [bench EXCEPT !.kid[w].fds = @ \ {bench.kid[w].fd_ctrl},
                            !.kid[w].own = @ \ {bench.kid[w].fd_ctrl},
                            !.kid[w].pc = "exited"]
  /\ bench_frame

NextBench ==
  \/ main_ctrl_init
  \/ main_ctrl
  \/ main_ctrl_done
  \/ main_fork
  \/ main_wait
  \/ \E w \in Kids : \/ child_setup(w)
                     \/ child_ctrl_init(w)
                     \/ child_memtest(w)
                     \/ child_ctrl_done(w)

SpecBench == InitBench /\ [][NextBench]_vars

\* C28: in a run of gcbench in "mem" mode the device receives the
\* configuration record (nproc, batchsize, 0) at most once, from the
\* parent, as the first record of all, and it has received it when the
\* first child exists; the records of each child carry the operations
\* 1, 2, 1, 2, ... starting with 1, and each was written through a
\* descriptor the child opened itself and had not closed; and when the
\* parent has printed "done", each of its nproc children has exited.
C28_ControlProtocol ==
  LET log == bench.log
      Of(w) == SelectSeq(log, LAMBDA r : r.pid = w)
  IN  /\ \A n \in 1 .. Len(log) :
           log[n].op = 0 <=> n = 1
      /\ Len(log) > 0 =>
           log[1] = [pid |-> 0, ncore |-> bench.nproc, op |-> 0, own |-> TRUE]
      /\ (\E w \in Kids : bench.kid[w].pc # "unborn") => Len(log) > 0
      /\ \A w \in Kids :
           /\ \A n \in 1 .. Len(Of(w)) :
                /\ Of(w)[n].op = IF n % 2 = 1 THEN 1 ELSE 2
                /\ Of(w)[n].own
           /\ bench.kid[w].pc = "memtest" =>
                bench.kid[w].fd_ctrl \in bench.kid[w].own
           /\ bench.kid[w].pc \in {"unborn", "setup", "ctrl_init"} =>
                Of(w) = <<>>
      /\ bench.main = "done" =>
           \A w \in 1 .. bench.nproc : bench.kid[w].pc = "exited"

\* Two children have each run the loop to its end, both wrote more than
\* one memtest() with their records interleaved on the device, and the
\* parent has printed "done".
C28_Witness ==
  /\ bench.main = "done"
  /\ bench.nproc = MaxProc
  /\ \A w \in Kids :
       Len(SelectSeq(bench.log, LAMBDA r : r.pid = w)) = 2 * BatchOps * MaxBatches
  /\ \E n \in 2 .. (Len(bench.log) - 1) :
       /\ bench.log[n].pid # bench.log[n + 1].pid
       /\ bench.log[n].op = 1

====
